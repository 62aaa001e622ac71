-------------------------------- MODULE KTlb --------------------------------
(***************************************************************************)
(* Kernel mappings, TLB generations and NMI shootdown of libnux, as built  *)
(* for x86: kmap.c, ktlbgen.c, the ktlb and nmiop parts of cpu.c, and the  *)
(* TLB side of pfncache.c.                                                 *)
(*                                                                         *)
(* Every CPU runs a main context and an NMI context.  The NMI context may  *)
(* start between any two steps of the main one and runs to its end before  *)
(* the main one goes on; steps of different CPUs interleave freely.        *)
(*                                                                         *)
(* Generations are kept here as true counts and the code sees them modulo  *)
(* GenMod (the width of tlbgen_t), so that a wrap of the integer can be    *)
(* told from an old value.                                                 *)
(***************************************************************************)
EXTENDS Integers, FiniteSets

CONSTANTS
  CPU,      \* active CPUs
  Slot,     \* virtual pages of the PFN cache, one per slot
  KVA,      \* the other kernel virtual pages
  Pfn,      \* page frames
  None,     \* no mapping, no TLB entry, no lock holder
  GenMod,   \* 2 ^ (bits of tlbgen_t)
  WrapMod,  \* 2 ^ _TG_WSHIFT
  MaxGen,   \* bound: generations issued in a behaviour
  Does      \* bound: what each CPU does in this instance

Work == {"WALK", "PFN", "KMAP", "UPDATE", "KMAPUPDATE", "TLBFLUSH"}
VA == Slot \cup KVA
Mapping == [pfn : Pfn, glob : BOOLEAN]
Kind == {"normal", "global"}
Gens == [Kind -> Nat]
TlbEntry == [map : Mapping, gen : Gens]

ASSUME KTlbConstants ==
  /\ IsFiniteSet(CPU)
  /\ GenMod \in Nat \ {0} /\ WrapMod \in Nat \ {0} /\ MaxGen \in Nat
  /\ None \notin Mapping \cup TlbEntry \cup CPU \cup VA \cup Pfn
  /\ Slot \cap KVA = {}
  /\ Does \in [CPU -> SUBSET Work]

VARIABLES
  pte,      \* leaf entries of the kernel page table
  chg,      \* history: generations at the last marked change of a page
  kgen,     \* ktlbgen.c: ktlb
  cgen,     \* cpu_info.ktlb of every CPU
  tlb,      \* TLB of every CPU; an entry remembers the generations at load
  pc,       \* control state of every context
  loc,      \* locals of cpu_ktlb_update and cpu_tlbflush_local
  va, frame, owed, target,
            \* locals of kmap.c and pfn_get: the page operated on, the frame
            \* asked for, the TLB operation owed for it, the reach target
  todo, dst, bit, snap,
            \* locals of a broadcast: the CPUs left, the one being notified,
            \* the NMI operation, and (history) the generations at its start
  nmiop,    \* cpu_info.nmiop
  nop,      \* cpu_nmiop's copy of nmiop
  nmipend,  \* NMI latched for the CPU
  pfncgen,  \* pfncache.c: pfnc_tlbgen
  ref,      \* references to a PFN cache slot
  clock     \* holder of the PFN cache lock

mapVars == <<pte, chg, kgen>>
nmiVars == <<nmiop, nop, nmipend>>
cacheVars == <<pfncgen, ref, clock>>
opVars == <<va, frame, owed, target>>
sendVars == <<todo, dst, bit, snap>>
vars == <<mapVars, cgen, tlb, pc, loc, opVars, sendVars, nmiVars, cacheVars>>

Ctx == {"main", "nmi"}
NmiOps == {"KMAPUPDATE", "TLBFLUSH"}
TlbOps == {"NONE", "FLUSH", "FLUSHALL"}
ZeroGens == [k \in Kind |-> 0]
Local == {"cglobal", "cnormal", "kglobal", "knormal"}
ZeroLocals == [l \in Local |-> 0]

UpdatePC == {"u_cg", "u_cn", "u_kg", "u_kn", "u_flushall", "u_casg",
             "u_flush", "u_casn"}
MainPC == UpdatePC \cup {"idle", "k_mark", "f_mark", "f_gen", "f_store",
                         "r_target", "r_cmp", "g_use", "b_or", "b_nmi",
                         "b_done"}
NmiPC == UpdatePC \cup {"off", "n_op", "t_kn", "t_cn", "t_flush", "t_cas"}

TypeOK ==
  /\ pte \in [VA -> Mapping \cup {None}]
  /\ chg \in [VA -> Gens] /\ kgen \in Gens /\ cgen \in [CPU -> Gens]
  /\ tlb \in [CPU -> [VA -> TlbEntry \cup {None}]]
  /\ pc \in [CPU -> [Ctx -> MainPC \cup NmiPC]]
  /\ \A c \in CPU : pc[c]["main"] \in MainPC /\ pc[c]["nmi"] \in NmiPC
  /\ loc \in [CPU -> [Ctx -> [Local -> Nat]]]
  /\ va \in [CPU -> VA \cup {None}] /\ frame \in [CPU -> Pfn \cup {None}]
  /\ owed \in [CPU -> TlbOps] /\ target \in [CPU -> Nat]
  /\ todo \in [CPU -> SUBSET CPU] /\ dst \in [CPU -> CPU \cup {None}]
  /\ bit \in [CPU -> NmiOps] /\ snap \in [CPU -> Gens]
  /\ nmiop \in [CPU -> SUBSET NmiOps] /\ nop \in [CPU -> SUBSET NmiOps]
  /\ nmipend \in [CPU -> BOOLEAN]
  /\ pfncgen \in Nat /\ ref \in [Slot -> Nat] /\ clock \in CPU \cup {None}

-----------------------------------------------------------------------------
(* tlbgen_cmp (a, b) > 0, on the values the code sees.                     *)
TG_WRAP(t) == t % WrapMod

tlbgen_newer(a, b) ==
  LET x == a % GenMod
      y == b % GenMod
  IN  TG_WRAP(x) # TG_WRAP(y) \/ x > y

(* x86: nothing to flush for a page that was not present; otherwise any    *)
(* change flushes, globally when the old or the new entry is global.       *)
TlbopIgnoresGlobal(old, new) == IF old = None THEN "NONE" ELSE "FLUSH"

hal_l1e_tlbop(old, new) ==
  IF old = None THEN "NONE"
  ELSE IF old.glob \/ (new # None /\ new.glob) THEN "FLUSHALL" ELSE "FLUSH"

(* hal_cpu_tlbop: FLUSHALL empties the TLB, FLUSH keeps global entries.    *)
AlwaysReloadCr3(c, kind) ==
  tlb' = [tlb EXCEPT ![c] =
            [v \in VA |-> IF @[v] # None /\ @[v].map.glob THEN @[v] ELSE None]]

hal_cpu_tlbop(c, kind) ==
  tlb' = [tlb EXCEPT ![c] =
            [v \in VA |-> IF @[v] # None /\ kind = "FLUSH" /\ @[v].map.glob
                          THEN @[v] ELSE None]]

(* An NMI suspends the main context of its CPU until it returns.           *)
At(c, x, l) == pc[c][x] = l /\ (x = "main" => pc[c]["nmi"] = "off")
Goto(c, x, l) == pc' = [pc EXCEPT ![c][x] = l]

Init ==
  /\ pte = [v \in VA |-> None]
  /\ chg = [v \in VA |-> ZeroGens]
  /\ kgen = ZeroGens
  /\ cgen = [c \in CPU |-> ZeroGens]
  /\ tlb = [c \in CPU |-> [v \in VA |-> None]]
  /\ pc = [c \in CPU |-> [x \in Ctx |-> IF x = "main" THEN "idle" ELSE "off"]]
  /\ loc = [c \in CPU |-> [x \in Ctx |-> ZeroLocals]]
  /\ va = [c \in CPU |-> None] /\ frame = [c \in CPU |-> None]
  /\ owed = [c \in CPU |-> "NONE"] /\ target = [c \in CPU |-> 0]
  /\ todo = [c \in CPU |-> {}] /\ dst = [c \in CPU |-> None]
  /\ bit = [c \in CPU |-> "KMAPUPDATE"] /\ snap = [c \in CPU |-> ZeroGens]
  /\ nmiop = [c \in CPU |-> {}] /\ nop = [c \in CPU |-> {}]
  /\ nmipend = [c \in CPU |-> FALSE]
  /\ pfncgen = 0 /\ ref = [s \in Slot |-> 0] /\ clock = None

-----------------------------------------------------------------------------
(* The hardware: a page walk caches a present entry, an entry is evicted.  *)
TlbLoad(c, v) ==
  /\ pte[v] # None /\ tlb[c][v] = None /\ "WALK" \in Does[c]
  /\ tlb' = [tlb EXCEPT ![c][v] = [map |-> pte[v], gen |-> kgen]]
  /\ UNCHANGED <<mapVars, cgen, pc, loc, opVars, sendVars, nmiVars, cacheVars>>

TlbEvict(c, v) ==
  /\ tlb[c][v] # None
  /\ tlb' = [tlb EXCEPT ![c][v] = None]
  /\ UNCHANGED <<mapVars, cgen, pc, loc, opVars, sendVars, nmiVars, cacheVars>>

-----------------------------------------------------------------------------
(* kmap.c is "unlocked ... use with care": callers own the page they map.  *)
CanChange == kgen["normal"] + kgen["global"] < MaxGen
Owned(v) ==
  \E c \in CPU : pc[c]["main"] \in {"k_mark", "f_mark"} /\ va[c] = v

(* _kmap_map, kmap_unmap and kmap_ensure up to hal_l1e_set.                *)
kmap_set(c, v, new) ==
  /\ At(c, "main", "idle") /\ "KMAP" \in Does[c]
  /\ CanChange /\ ~Owned(v)
  /\ pte' = [pte EXCEPT ![v] = new]
  /\ va' = [va EXCEPT ![c] = v]
  /\ owed' = [owed EXCEPT ![c] = hal_l1e_tlbop(pte[v], new)]
  /\ Goto(c, "main", "k_mark")
  /\ UNCHANGED <<chg, kgen, cgen, tlb, loc, frame, target, sendVars, nmiVars,
                 cacheVars>>

(* ktlbgen_markdirty; chg notes the generation that covers the change.     *)
ktlbgen_markdirty(v, tlbop) ==
  \/ /\ tlbop = "NONE"
     /\ UNCHANGED <<kgen, chg>>
  \/ /\ tlbop = "FLUSH"
     /\ kgen' = [kgen EXCEPT !["normal"] = @ + 1]
     /\ chg' = [chg EXCEPT ![v]["normal"] = kgen["normal"] + 1]
  \/ /\ tlbop = "FLUSHALL"
     /\ kgen' = [kgen EXCEPT !["global"] = @ + 1]
     /\ chg' = [chg EXCEPT ![v]["global"] = kgen["global"] + 1]

kmap_mark(c) ==
  /\ At(c, "main", "k_mark")
  /\ ktlbgen_markdirty(va[c], owed[c])
  /\ va' = [va EXCEPT ![c] = None]
  /\ owed' = [owed EXCEPT ![c] = "NONE"]
  /\ Goto(c, "main", "idle")
  /\ UNCHANGED <<pte, cgen, tlb, loc, frame, target, sendVars, nmiVars,
                 cacheVars>>

-----------------------------------------------------------------------------
(* kmap_commit -> cpu_kmapupdate_broadcast, and cpu_tlbflush_broadcast:    *)
(* for each active CPU set the bit in nmiop and send the NMI.              *)
Broadcast(c, b) ==
  /\ At(c, "main", "idle") /\ b \in Does[c]
  /\ todo' = [todo EXCEPT ![c] = CPU]
  /\ bit' = [bit EXCEPT ![c] = b]
  /\ snap' = [snap EXCEPT ![c] = kgen]
  /\ Goto(c, "main", "b_or")
  /\ UNCHANGED <<mapVars, cgen, tlb, loc, opVars, dst, nmiVars, cacheVars>>

BroadcastOr(c, d) ==
  /\ At(c, "main", "b_or") /\ d \in todo[c]
  /\ nmiop' = [nmiop EXCEPT ![d] = @ \cup {bit[c]}]
  /\ todo' = [todo EXCEPT ![c] = @ \ {d}]
  /\ dst' = [dst EXCEPT ![c] = d]
  /\ Goto(c, "main", "b_nmi")
  /\ UNCHANGED <<mapVars, cgen, tlb, loc, opVars, bit, snap, nop, nmipend,
                 cacheVars>>

NmiLostIfBusy(c) == [nmipend EXCEPT ![dst[c]] = @ \/ pc[dst[c]]["nmi"] = "off"]

cpu_nmi(c) == [nmipend EXCEPT ![dst[c]] = TRUE]

BroadcastNmi(c) ==
  /\ At(c, "main", "b_nmi")
  /\ nmipend' = cpu_nmi(c)
  /\ Goto(c, "main", IF todo[c] = {} THEN "b_done" ELSE "b_or")
  /\ UNCHANGED <<mapVars, cgen, tlb, loc, opVars, sendVars, nmiop, nop, cacheVars>>

BroadcastDone(c) ==
  /\ At(c, "main", "b_done")
  /\ dst' = [dst EXCEPT ![c] = None]
  /\ bit' = [bit EXCEPT ![c] = "KMAPUPDATE"]
  /\ snap' = [snap EXCEPT ![c] = ZeroGens]
  /\ Goto(c, "main", "idle")
  /\ UNCHANGED <<mapVars, cgen, tlb, loc, opVars, todo, nmiVars, cacheVars>>

-----------------------------------------------------------------------------
(* pfncache.c.  cache_get under the cache lock: the slot that maps the     *)
(* frame, or any unreferenced slot, refilled.  Which unreferenced slot the *)
(* free list yields, and whether the lookup finds a cached frame, is left  *)
(* open here: see Cache, also for a cache with no unreferenced slot.       *)
HitWithoutRef(s) == UNCHANGED ref

Reference(s) == ref' = [ref EXCEPT ![s] = @ + 1]

cache_hit(c, s, p) ==
  /\ At(c, "main", "idle") /\ "PFN" \in Does[c]
  /\ clock = None
  /\ pte[s] = [pfn |-> p, glob |-> FALSE]
  /\ Reference(s)
  /\ va' = [va EXCEPT ![c] = s]
  /\ frame' = [frame EXCEPT ![c] = p]
  /\ Goto(c, "main", "r_target")
  /\ UNCHANGED <<mapVars, cgen, tlb, loc, owed, target, sendVars, nmiVars,
                 pfncgen, clock>>

(* The miss, up to hal_l1e_set in _pfncache_fill.                          *)
cache_fill(c, s, p) ==
  /\ At(c, "main", "idle") /\ "PFN" \in Does[c]
  /\ clock = None /\ CanChange
  /\ ref[s] = 0
  /\ ref' = [ref EXCEPT ![s] = 1]
  /\ clock' = c
  /\ pte' = [pte EXCEPT ![s] = [pfn |-> p, glob |-> FALSE]]
  /\ va' = [va EXCEPT ![c] = s]
  /\ frame' = [frame EXCEPT ![c] = p]
  /\ owed' = [owed EXCEPT ![c] =
                hal_l1e_tlbop(pte[s], [pfn |-> p, glob |-> FALSE])]
  /\ Goto(c, "main", "f_mark")
  /\ UNCHANGED <<chg, kgen, cgen, tlb, loc, target, sendVars, nmiVars, pfncgen>>

fill_mark(c) ==
  /\ At(c, "main", "f_mark")
  /\ ktlbgen_markdirty(va[c], owed[c])
  /\ owed' = [owed EXCEPT ![c] = "NONE"]
  /\ Goto(c, "main", "f_gen")
  /\ UNCHANGED <<pte, cgen, tlb, loc, va, frame, target, sendVars, nmiVars,
                 cacheVars>>

(* tlbgen = ktlbgen_normal ().                                             *)
fill_gen(c) ==
  /\ At(c, "main", "f_gen")
  /\ target' = [target EXCEPT ![c] = kgen["normal"]]
  /\ Goto(c, "main", "f_store")
  /\ UNCHANGED <<mapVars, cgen, tlb, loc, va, frame, owed, sendVars, nmiVars,
                 cacheVars>>

(* pfnc_tlbgen = tlbgen; cache_get returns and unlocks.                    *)
StoreForgotten(c) == UNCHANGED pfncgen

StoreTarget(c) == pfncgen' = target[c]

fill_store(c) ==
  /\ At(c, "main", "f_store")
  /\ StoreTarget(c)
  /\ clock' = None
  /\ Goto(c, "main", "r_target")
  /\ UNCHANGED <<mapVars, cgen, tlb, loc, opVars, sendVars, nmiVars, ref>>

(* pfn_get: load the target, then cpu_ktlb_reach.                          *)
reach_target(c) ==
  /\ At(c, "main", "r_target")
  /\ target' = [target EXCEPT ![c] = pfncgen]
  /\ Goto(c, "main", "r_cmp")
  /\ UNCHANGED <<mapVars, cgen, tlb, loc, va, frame, owed, sendVars, nmiVars,
                 cacheVars>>

reach_cmp(c) ==
  /\ At(c, "main", "r_cmp")
  /\ Goto(c, "main", IF tlbgen_newer(target[c], cgen[c]["normal"])
                     THEN "u_cg" ELSE "g_use")
  /\ UNCHANGED <<mapVars, cgen, tlb, loc, opVars, sendVars, nmiVars, cacheVars>>

(* pfn_put -> cache_put, under the cache lock.                             *)
pfn_put(c) ==
  /\ At(c, "main", "g_use") /\ clock = None
  /\ ref' = [ref EXCEPT ![va[c]] = @ - 1]
  /\ va' = [va EXCEPT ![c] = None]
  /\ frame' = [frame EXCEPT ![c] = None]
  /\ target' = [target EXCEPT ![c] = 0]
  /\ Goto(c, "main", "idle")
  /\ UNCHANGED <<mapVars, cgen, tlb, loc, owed, sendVars, nmiVars, pfncgen,
                 clock>>

-----------------------------------------------------------------------------
(* cpu_ktlb_update, one step per shared access; called directly, by        *)
(* cpu_ktlb_reach and by cpu_nmiop.                                        *)
ktlb_update_call(c) ==
  /\ At(c, "main", "idle") /\ "UPDATE" \in Does[c]
  /\ Goto(c, "main", "u_cg")
  /\ UNCHANGED <<mapVars, cgen, tlb, loc, opVars, sendVars, nmiVars, cacheVars>>

update_cg(c, x) ==
  /\ At(c, x, "u_cg")
  /\ loc' = [loc EXCEPT ![c][x]["cglobal"] = cgen[c]["global"]]
  /\ Goto(c, x, "u_cn")
  /\ UNCHANGED <<mapVars, cgen, tlb, opVars, sendVars, nmiVars, cacheVars>>

update_cn(c, x) ==
  /\ At(c, x, "u_cn")
  /\ loc' = [loc EXCEPT ![c][x]["cnormal"] = cgen[c]["normal"]]
  /\ Goto(c, x, "u_kg")
  /\ UNCHANGED <<mapVars, cgen, tlb, opVars, sendVars, nmiVars, cacheVars>>

update_kg(c, x) ==
  /\ At(c, x, "u_kg")
  /\ loc' = [loc EXCEPT ![c][x]["kglobal"] = kgen["global"]]
  /\ Goto(c, x, "u_kn")
  /\ UNCHANGED <<mapVars, cgen, tlb, opVars, sendVars, nmiVars, cacheVars>>

(* Where a context goes once cpu_ktlb_update returns.                      *)
AfterUpdate(c, x) ==
  IF x = "main" THEN IF frame[c] # None THEN "g_use" ELSE "idle"
  ELSE IF "TLBFLUSH" \in nop[c] THEN "t_kn" ELSE "off"

(* The generation that is newer decides the flush; the locals die with the *)
(* call.                                                                   *)
update_kn(c, x) ==
  /\ At(c, x, "u_kn")
  /\ LET l == [loc[c][x] EXCEPT !["knormal"] = kgen["normal"]]
         flushall == tlbgen_newer(l["kglobal"], l["cglobal"])
         flush == tlbgen_newer(l["knormal"], l["cnormal"])
     IN  \/ /\ flushall \/ flush
            /\ loc' = [loc EXCEPT ![c][x] = l]
            /\ Goto(c, x, IF flushall THEN "u_flushall" ELSE "u_flush")
         \/ /\ ~flushall /\ ~flush
            /\ loc' = [loc EXCEPT ![c][x] = ZeroLocals]
            /\ Goto(c, x, AfterUpdate(c, x))
  /\ UNCHANGED <<mapVars, cgen, tlb, opVars, sendVars, nmiVars, cacheVars>>

update_flushall(c, x) ==
  /\ At(c, x, "u_flushall")
  /\ hal_cpu_tlbop(c, "FLUSHALL")
  /\ Goto(c, x, "u_casg")
  /\ UNCHANGED <<mapVars, cgen, loc, opVars, sendVars, nmiVars, cacheVars>>

update_flush(c, x) ==
  /\ At(c, x, "u_flush")
  /\ hal_cpu_tlbop(c, "FLUSH")
  /\ Goto(c, x, "u_casn")
  /\ UNCHANGED <<mapVars, cgen, loc, opVars, sendVars, nmiVars, cacheVars>>

(* __atomic_compare_exchange on the values the code sees.                  *)
CasStoresBack(cur, old, new) == IF cur % GenMod = old % GenMod THEN new ELSE old

Cas(cur, old, new) == IF cur % GenMod = old % GenMod THEN new ELSE cur

update_casg(c, x) ==
  /\ At(c, x, "u_casg")
  /\ cgen' = [cgen EXCEPT ![c]["global"] =
                Cas(@, loc[c][x]["cglobal"], loc[c][x]["kglobal"])]
  /\ Goto(c, x, "u_casn")
  /\ UNCHANGED <<mapVars, tlb, loc, opVars, sendVars, nmiVars, cacheVars>>

CasNormal(c, x) ==
  /\ cgen' = [cgen EXCEPT ![c]["normal"] =
                Cas(@, loc[c][x]["cnormal"], loc[c][x]["knormal"])]
  /\ loc' = [loc EXCEPT ![c][x] = ZeroLocals]

update_casn(c, x) ==
  /\ At(c, x, "u_casn")
  /\ CasNormal(c, x)
  /\ Goto(c, x, AfterUpdate(c, x))
  /\ UNCHANGED <<mapVars, tlb, opVars, sendVars, nmiVars, cacheVars>>

-----------------------------------------------------------------------------
(* The NMI: hal_entry_nmi -> cpu_nmiop.  nmiop is read once and its bits   *)
(* are never cleared.                                                      *)
NmiDeliver(c) ==
  /\ nmipend[c] /\ pc[c]["nmi"] = "off"
  /\ nmipend' = [nmipend EXCEPT ![c] = FALSE]
  /\ Goto(c, "nmi", "n_op")
  /\ UNCHANGED <<mapVars, cgen, tlb, loc, opVars, sendVars, nmiop, nop, cacheVars>>

cpu_nmiop(c) ==
  /\ At(c, "nmi", "n_op")
  /\ nop' = [nop EXCEPT ![c] = nmiop[c]]
  /\ Goto(c, "nmi", IF "KMAPUPDATE" \in nmiop[c] THEN "u_cg"
                    ELSE IF "TLBFLUSH" \in nmiop[c] THEN "t_kn" ELSE "off")
  /\ UNCHANGED <<mapVars, cgen, tlb, loc, opVars, sendVars, nmiop, nmipend, cacheVars>>

(* cpu_tlbflush_local: both generations are read before the flush.         *)
tlbflush_kn(c) ==
  /\ At(c, "nmi", "t_kn")
  /\ loc' = [loc EXCEPT ![c]["nmi"]["knormal"] = kgen["normal"]]
  /\ Goto(c, "nmi", "t_cn")
  /\ UNCHANGED <<mapVars, cgen, tlb, opVars, sendVars, nmiVars, cacheVars>>

tlbflush_cn(c) ==
  /\ At(c, "nmi", "t_cn")
  /\ loc' = [loc EXCEPT ![c]["nmi"]["cnormal"] = cgen[c]["normal"]]
  /\ Goto(c, "nmi", "t_flush")
  /\ UNCHANGED <<mapVars, cgen, tlb, opVars, sendVars, nmiVars, cacheVars>>

tlbflush_flush(c) ==
  /\ At(c, "nmi", "t_flush")
  /\ hal_cpu_tlbop(c, "FLUSH")
  /\ Goto(c, "nmi", "t_cas")
  /\ UNCHANGED <<mapVars, cgen, loc, opVars, sendVars, nmiVars, cacheVars>>

tlbflush_cas(c) ==
  /\ At(c, "nmi", "t_cas")
  /\ CasNormal(c, "nmi")
  /\ Goto(c, "nmi", "off")
  /\ UNCHANGED <<mapVars, tlb, opVars, sendVars, nmiVars, cacheVars>>

-----------------------------------------------------------------------------
Update(c, x) ==
  \/ update_cg(c, x) \/ update_cn(c, x) \/ update_kg(c, x) \/ update_kn(c, x)
  \/ update_flushall(c, x) \/ update_flush(c, x)
  \/ update_casg(c, x) \/ update_casn(c, x)

Nmi(c) ==
  \/ NmiDeliver(c) \/ cpu_nmiop(c) \/ Update(c, "nmi")
  \/ tlbflush_kn(c) \/ tlbflush_cn(c) \/ tlbflush_flush(c) \/ tlbflush_cas(c)

Kmap(c) ==
  \/ \E v \in KVA, new \in Mapping \cup {None} : kmap_set(c, v, new)
  \/ kmap_mark(c)

Commit(c) ==
  \/ \E b \in NmiOps : Broadcast(c, b)
  \/ \E d \in CPU : BroadcastOr(c, d)
  \/ BroadcastNmi(c) \/ BroadcastDone(c)

PfnCache(c) ==
  \/ \E s \in Slot, p \in Pfn : cache_hit(c, s, p) \/ cache_fill(c, s, p)
  \/ fill_mark(c) \/ fill_gen(c) \/ fill_store(c)
  \/ reach_target(c) \/ reach_cmp(c) \/ pfn_put(c)

Next ==
  \E c \in CPU :
    \/ \E v \in VA : TlbLoad(c, v) \/ TlbEvict(c, v)
    \/ Kmap(c) \/ Commit(c) \/ PfnCache(c)
    \/ ktlb_update_call(c) \/ Update(c, "main") \/ Nmi(c)

Spec == Init /\ [][Next]_vars

(* An NMI cannot be masked and its handler waits for nobody.               *)
FairSpec == Spec /\ \A c \in CPU : WF_vars(Nmi(c))

-----------------------------------------------------------------------------
(* The generation counters have not wrapped.                               *)
Unwrapped == kgen["normal"] < GenMod /\ kgen["global"] < GenMod

Stale(c, v) == tlb[c][v] # None /\ tlb[c][v].map # pte[v]

(* Entry e of a TLB was loaded at or after generations g, as far as a      *)
(* flush up to g would have dropped it.                                    *)
LoadedSince(e, g) ==
  e.gen["global"] >= g["global"]
    /\ (e.map.glob \/ e.gen["normal"] >= g["normal"])

(* The generations a CPU records in cpu_info.ktlb never run ahead of its   *)
(* TLB: every entry it still holds was loaded at or after them, whatever   *)
(* NMI ran between the flush and the compare-exchange.                     *)
GenNotAhead ==
  Unwrapped => \A c \in CPU, v \in VA :
                 tlb[c][v] # None => LoadedSince(tlb[c][v], cgen[c])

(* A stale TLB entry is never invisible to cpu_ktlb_update: once the       *)
(* change is marked, the generations of that CPU still compare as older.   *)
StaleDetectable ==
  Unwrapped => \A c \in CPU, v \in VA :
    Stale(c, v) /\ ~Owned(v) =>
      \/ tlbgen_newer(kgen["global"], cgen[c]["global"])
      \/ ~tlb[c][v].map.glob /\ tlbgen_newer(kgen["normal"], cgen[c]["normal"])

(* What pfn_get returned maps the frame asked for, in the page table and   *)
(* through the TLB of the CPU that asked, until pfn_put: no slot refilled  *)
(* by another CPU is ever read through an old translation.                 *)
SlotFresh(c) ==
  pc[c]["main"] = "g_use" =>
    /\ pte[va[c]] = [pfn |-> frame[c], glob |-> FALSE]
    /\ ~Stale(c, va[c])

PfnGetFresh == Unwrapped => \A c \in CPU : SlotFresh(c)

(* The compare-exchange of cpu_ktlb_update and cpu_tlbflush_local never    *)
(* takes a CPU's generation back when an NMI advanced it in the meantime.  *)
CgenStep ==
  Unwrapped' => \A c \in CPU : /\ cgen'[c]["normal"] >= cgen[c]["normal"]
                               /\ cgen'[c]["global"] >= cgen[c]["global"]

CgenMonotone == [][CgenStep]_vars

CommitDone(g) ==
  \E c \in CPU : pc[c]["main"] = "b_done" /\ bit[c] = "KMAPUPDATE"
                 /\ snap[c] = g

(* The generations a commit may find.                                      *)
Issued ==
  {g \in [Kind -> 0 .. MaxGen] : g["normal"] + g["global"] \in 1 .. MaxGen}

(* kmap_commit: once it returns, every CPU eventually holds only entries   *)
(* loaded after the changes marked before the call.                        *)
CommitReaches ==
  \A g \in Issued :
    CommitDone(g) ~> \A c \in CPU, v \in VA :
                       tlb[c][v] # None => LoadedSince(tlb[c][v], g)

(* types.h: the generation type is "wrap friendly", a flush is missed only *)
(* by a TLB left alone "while the wrapcount itself has wrapped".           *)
Lag(c) == kgen["normal"] - cgen[c]["normal"]

WrapFriendly ==
  \A c \in CPU : Lag(c) <= GenMod - GenMod \div WrapMod => SlotFresh(c)

=============================================================================
