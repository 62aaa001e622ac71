----------------------------- MODULE KTlbBook -------------------------------
(***************************************************************************)
(* Book, the part of the invariant about control states, references and    *)
(* the cache lock, is preserved by every step. It needs no counter.        *)
(***************************************************************************)
EXTENDS KTlbType

\* The provers each step is given to, in this order.
USE SMTT(30), Z3T(30), Zenon

-----------------------------------------------------------------------------
(* A step that touches no mapping, reference or operation keeps the        *)
(* bookkeeping of pfn_get and pfn_put.                                     *)
LEMMA BookQuiet ==
  ASSUME TypeOK, Book, NEW c \in CPU, Quiet(c)
  PROVE  Book'
<1> USE DEF Ctx, mapVars, cacheVars, opVars, Quiet, Book
<1>1. \A d \in CPU : OpShape(d)'
  BY ZenonT(60) DEF OpShape, HoldPC, FillPC, UpdatePC
<1>2. SlotsLocal'
  BY Zenon DEF SlotsLocal, VA
<1>3. LockHeld'
  BY Zenon DEF LockHeld, Holds, FillPC, UpdatePC
<1>4. HeldMapped'
  BY DEF HeldMapped
<1>5. RefCount'
  <2>1. \A s \in Slot : Holders(s)' = Holders(s)
    BY DEF Holders, Holds
  <2> QED BY <2>1 DEF RefCount
<1> QED BY Zenon, <1>1, <1>2, <1>3, <1>4, <1>5

(* A step that changes who holds a slot keeps the reference counts right.  *)
LEMMA RefHit ==
  ASSUME TypeOK, RefCount, NEW c \in CPU, NEW t \in Slot, frame[c] = None,
         frame'[c] # None, va'[c] = t, ref' = [ref EXCEPT ![t] = ref[t] + 1],
         \A d \in CPU \ {c} : frame'[d] = frame[d] /\ va'[d] = va[d]
  PROVE  RefCount'
<1> SUFFICES ASSUME NEW s \in Slot PROVE ref'[s] = Cardinality(Holders(s)')
  BY DEF RefCount
<1>1. IsFiniteSet(Holders(s)) /\ c \notin Holders(s)
  BY KTlbConstants, FS_Subset DEF Holders, Holds
<1>2. CASE s = t
  <2>1. Holders(s)' = Holders(s) \cup {c}
    BY <1>2 DEF Holders, Holds
  <2>2. Cardinality(Holders(s)') = Cardinality(Holders(s)) + 1
    BY Zenon, <1>1, <2>1, FS_AddElement
  <2> QED BY <1>2, <2>2 DEF RefCount, TypeOK
<1>3. CASE s # t
  <2>1. Holders(s)' = Holders(s)
    BY <1>3 DEF Holders, Holds
  <2> QED BY <1>3, <2>1 DEF RefCount
<1> QED BY <1>2, <1>3

(* pfn_put drops the one reference its CPU held on the slot.               *)
LEMMA RefPut ==
  ASSUME TypeOK, RefCount, NEW c \in CPU, NEW t \in Slot, frame[c] # None, va[c] = t,
         frame'[c] = None, ref' = [ref EXCEPT ![t] = ref[t] - 1],
         \A d \in CPU \ {c} : frame'[d] = frame[d] /\ va'[d] = va[d]
  PROVE  RefCount'
<1> SUFFICES ASSUME NEW s \in Slot PROVE ref'[s] = Cardinality(Holders(s)')
  BY DEF RefCount
<1>1. IsFiniteSet(Holders(s))
  BY KTlbConstants, FS_Subset DEF Holders
<1>2. CASE s = t
  <2>1. Holders(s)' = Holders(s) \ {c} /\ c \in Holders(s)
    BY <1>2 DEF Holders, Holds
  <2>2. Cardinality(Holders(s)') = Cardinality(Holders(s)) - 1
    BY Zenon, <1>1, <2>1, FS_RemoveElement
  <2> QED BY Zenon, <1>2, <2>2 DEF RefCount, TypeOK
<1>3. CASE s # t
  <2>1. Holders(s)' = Holders(s)
    BY <1>3 DEF Holders, Holds
  <2> QED BY <1>3, <2>1 DEF RefCount
<1> QED BY <1>2, <1>3

(* A step that moves no frame keeps every slot's reference count.          *)
LEMMA RefSame ==
  ASSUME TypeOK, RefCount, ref' = ref,
         \A d \in CPU : frame'[d] = frame[d] /\ (frame[d] # None => va'[d] = va[d])
  PROVE  RefCount'
<1>1. \A s \in Slot : Holders(s)' = Holders(s)
  BY DEF Holders, Holds
<1> QED BY <1>1 DEF RefCount

(* A slot with no references is held by no CPU, so cache_get may refill    *)
(* it.                                                                     *)
LEMMA NoHolder ==
  ASSUME TypeOK, RefCount, NEW s \in Slot, ref[s] = 0, NEW c \in CPU
  PROVE  ~Holds(c, s)
<1>1. IsFiniteSet(Holders(s))
  BY KTlbConstants, FS_Subset DEF Holders
<1>2. Holders(s) = {}
  BY <1>1, FS_EmptySet DEF RefCount
<1> QED BY <1>2 DEF Holders

(* Book is preserved by every step.                                        *)
LEMMA BookStep == TypeOK /\ Book /\ [Next]_vars => Book'
<1> SUFFICES ASSUME TypeOK, Book, [Next]_vars PROVE Book'
  OBVIOUS
<1> USE KTlbConstants
<1> USE DEF Ctx, At, Goto, mapVars, nmiVars, cacheVars, opVars, sendVars
<1> DEFINE Shape == \A d \in CPU : OpShape(d)
<1>a. Shape /\ SlotsLocal /\ LockHeld /\ HeldMapped /\ RefCount
  BY DEF Book
<1>b. Shape' /\ SlotsLocal' /\ LockHeld' /\ HeldMapped' /\ RefCount' => Book'
  BY DEF Book
<1> HIDE DEF Shape
<1>1. CASE UNCHANGED vars
  <2>1. Shape' /\ SlotsLocal' /\ LockHeld' /\ HeldMapped'
    BY Zenon, <1>1, <1>a DEF vars, Shape, OpShape, SlotsLocal, LockHeld, HeldMapped, Holds
  <2>2. RefCount'
    BY <1>1, <1>a, RefSame DEF vars
  <2> QED BY <1>b, <2>1, <2>2
<1>2. ASSUME NEW c \in CPU, NEW v \in VA, TlbLoad(c, v) PROVE Book'
  <2>1. Shape' /\ LockHeld' /\ HeldMapped'
    BY Zenon, <1>2, <1>a DEF TlbLoad, Shape, OpShape, LockHeld, HeldMapped, Holds
  <2>2. SlotsLocal'
    BY <1>2, <1>a DEF TlbLoad, SlotsLocal, VA
  <2>3. RefCount'
    BY Zenon, <1>2, <1>a, RefSame DEF TlbLoad
  <2> QED BY <1>b, <2>1, <2>2, <2>3
<1>3. ASSUME NEW c \in CPU, NEW v \in KVA, NEW new \in Mapping \cup {None}, kmap_set(c, v, new)
      PROVE  Book'
  <2>0. frame[c] = None /\ v \notin Slot /\ v \in VA
    BY Zenon, <1>3, <1>a DEF kmap_set, Shape, OpShape, HoldPC, FillPC, UpdatePC, VA
  <2>1. Shape'
    BY <1>3, <1>a, <2>0, PcType, OpType DEF kmap_set, Shape, OpShape, HoldPC, FillPC, UpdatePC
  <2>2. SlotsLocal'
    BY <1>3, <1>a, <2>0 DEF kmap_set, SlotsLocal, VA
  <2>3. LockHeld'
    BY <1>3, <1>a, <2>0 DEF kmap_set, LockHeld, Holds, FillPC
  <2>4. HeldMapped'
    BY <1>3, <1>a, <2>0 DEF kmap_set, HeldMapped, Shape, OpShape
  <2>5. RefCount'
    BY Zenon, <1>3, <1>a, <2>0, RefSame, OpType DEF kmap_set
  <2> QED BY <1>b, <2>1, <2>2, <2>3, <2>4, <2>5
<1>4. ASSUME NEW c \in CPU, kmap_mark(c) PROVE Book'
  <2>0. frame[c] = None /\ va[c] \notin Slot /\ va[c] \in VA
    BY <1>4, <1>a DEF kmap_mark, Shape, OpShape, HoldPC, FillPC, UpdatePC, VA
  <2>1. Shape'
    BY <1>4, <1>a, <2>0, PcType, OpType DEF kmap_mark, Shape, OpShape, HoldPC, FillPC, UpdatePC
  <2>2. \A s \in Slot : chg'[s] = chg[s]
    BY <1>4, <2>0, GenType DEF kmap_mark, ktlbgen_markdirty, VA
  <2>3. SlotsLocal'
    BY Zenon, <1>4, <1>a, <2>2 DEF kmap_mark, SlotsLocal
  <2>4. LockHeld'
    BY <1>4, <1>a, <2>0 DEF kmap_mark, LockHeld, Holds, FillPC
  <2>5. HeldMapped'
    BY Zenon, <1>4, <1>a, <2>0, OpType DEF kmap_mark, HeldMapped
  <2>6. RefCount'
    BY <1>4, <1>a, <2>0, RefSame DEF kmap_mark
  <2> QED BY <1>b, <2>1, <2>3, <2>4, <2>5, <2>6
<1>5. ASSUME NEW c \in CPU, Commit(c) PROVE Book'
  <2>1. UNCHANGED <<mapVars, tlb, opVars, cacheVars>>
    BY <1>5 DEF Commit, Broadcast, BroadcastOr, BroadcastNmi, BroadcastDone
  <2>2. \E p, q \in {"idle", "b_or", "b_nmi", "b_done"} :
           pc[c]["main"] = p /\ pc' = [pc EXCEPT ![c]["main"] = q]
    BY <1>5 DEF Commit, Broadcast, BroadcastOr, BroadcastNmi, BroadcastDone
  <2>3. \A d \in CPU : pc'[d]["main"] = "b_nmi" => dst'[d] \in CPU
    <3>1. ASSUME NEW b \in NmiOps, Broadcast(c, b)
          PROVE  \A d \in CPU : pc'[d]["main"] = "b_nmi" => dst'[d] \in CPU
      BY <3>1, <1>a DEF Broadcast, Shape, OpShape
    <3>2. ASSUME NEW e \in CPU, BroadcastOr(c, e)
          PROVE  \A d \in CPU : pc'[d]["main"] = "b_nmi" => dst'[d] \in CPU
      BY <3>2, <1>a DEF BroadcastOr, Shape, OpShape, TypeOK
    <3>3. CASE BroadcastNmi(c)
      BY <3>3, <1>a DEF BroadcastNmi, Shape, OpShape
    <3>4. CASE BroadcastDone(c)
      BY <3>4, <1>a DEF BroadcastDone, Shape, OpShape
    <3> QED BY Zenon, <1>5, <3>1, <3>2, <3>3, <3>4 DEF Commit
  <2>4. Shape'
    BY <1>a, <2>1, <2>2, <2>3 DEF Shape, OpShape, HoldPC, FillPC, UpdatePC
  <2>5. SlotsLocal' /\ HeldMapped'
    BY Zenon, <1>a, <2>1 DEF SlotsLocal, HeldMapped
  <2>6. LockHeld'
    BY <1>a, <2>1, <2>2 DEF LockHeld, Holds, FillPC
  <2>7. RefCount'
    BY <1>a, <2>1, RefSame
  <2> QED BY <1>b, <2>4, <2>5, <2>6, <2>7
<1>6. ASSUME NEW c \in CPU, NEW s \in Slot, NEW p \in Pfn, cache_hit(c, s, p) PROVE Book'
  <2>0. frame[c] = None
    BY Zenon, <1>6, <1>a DEF cache_hit, Shape, OpShape, HoldPC, FillPC, UpdatePC
  <2>1. Shape'
    BY <1>6, <1>a, PcType, OpType DEF cache_hit, Shape, OpShape, HoldPC, FillPC, UpdatePC
  <2>2. SlotsLocal'
    BY <1>6, <1>a DEF cache_hit, SlotsLocal
  <2>3. LockHeld'
    <3>1. \A d \in CPU : pc[d]["main"] \notin FillPC
      BY <1>6, <1>a DEF cache_hit, LockHeld
    <3>2. \A d \in CPU : pc'[d]["main"] \notin FillPC
      BY <1>6, <3>1 DEF cache_hit, FillPC
    <3> QED BY Zenon, <1>6, <3>2 DEF cache_hit, LockHeld
  <2>4. HeldMapped'
    BY Zenon, <1>6, <1>a, OpType DEF cache_hit, HeldMapped
  <2>5. RefCount'
    BY Zenon, <1>6, <1>a, <2>0, RefHit, OpType DEF cache_hit, Reference
  <2> QED BY <1>b, <2>1, <2>2, <2>3, <2>4, <2>5
<1>7. ASSUME NEW c \in CPU, NEW s \in Slot, NEW p \in Pfn, cache_fill(c, s, p) PROVE Book'
  <2>0. frame[c] = None /\ \A d \in CPU : ~Holds(d, s)
    BY Zenon, <1>7, <1>a, NoHolder DEF cache_fill, Shape, OpShape, HoldPC, FillPC, UpdatePC
  <2>1. owed'[c] # "FLUSHALL"
    BY <1>7, <1>a, OpType DEF cache_fill, SlotsLocal, hal_l1e_tlbop
  <2>2. Shape'
    BY <1>7, <1>a, <2>1, PcType, OpType DEF cache_fill, Shape, OpShape, HoldPC, FillPC, UpdatePC
  <2>3. SlotsLocal'
    BY Zenon, <1>7, <1>a, TlbType DEF cache_fill, SlotsLocal, VA
  <2>4. LockHeld'
    BY <1>7, <1>a, <2>0, PcType, OpType DEF cache_fill, LockHeld, Holds, FillPC
  <2>5. HeldMapped'
    <3>1. \A d \in CPU \ {c} : frame[d] # None => va[d] \in VA /\ va[d] # s
      BY <1>a, <2>0 DEF Shape, OpShape, Holds, VA
    <3>2. \A d \in CPU \ {c} : frame[d] # None => pte'[va[d]] = pte[va[d]]
      BY Zenon, <1>7, <3>1, TlbType DEF cache_fill
    <3>3. pte'[s] = [pfn |-> p, glob |-> FALSE]
      BY Zenon, <1>7, TlbType DEF cache_fill, VA
    <3> QED BY Zenon, <1>7, <1>a, <3>2, <3>3, OpType DEF cache_fill, HeldMapped
  <2>6. RefCount'
    <3>1. ref' = [ref EXCEPT ![s] = ref[s] + 1]
      BY <1>7 DEF cache_fill
    <3>2. /\ frame'[c] # None /\ va'[c] = s
          /\ \A d \in CPU \ {c} : frame'[d] = frame[d] /\ va'[d] = va[d]
      BY <1>7, OpType DEF cache_fill
    <3> QED BY Zenon, <1>a, <2>0, <3>1, <3>2, RefHit
  <2> QED BY <1>b, <2>2, <2>3, <2>4, <2>5, <2>6
<1>8. ASSUME NEW c \in CPU, fill_mark(c) PROVE Book'
  <2>0. va[c] \in Slot /\ owed[c] # "FLUSHALL"
    BY Zenon, <1>8, <1>a DEF fill_mark, Shape, OpShape, HoldPC, FillPC, UpdatePC
  <2>1. Shape'
    BY <1>8, <1>a, OpType DEF fill_mark, Shape, OpShape, HoldPC, FillPC, UpdatePC
  <2>2. \A s \in Slot : chg'[s]["global"] = chg[s]["global"]
    <3>1. CASE owed[c] = "NONE"
      BY <1>8, <3>1 DEF fill_mark, ktlbgen_markdirty
    <3>2. CASE owed[c] = "FLUSH"
      <4>1. chg' = [chg EXCEPT ![va[c]]["normal"] = kgen["normal"] + 1]
        BY <1>8, <3>2 DEF fill_mark, ktlbgen_markdirty
      <4> QED BY <2>0, <4>1 DEF VA, Gens, Kind
    <3> QED BY <2>0, <3>1, <3>2, OpType DEF TlbOps
  <2>3. SlotsLocal'
    BY Zenon, <1>8, <1>a, <2>2 DEF fill_mark, SlotsLocal
  <2>4. LockHeld'
    BY <1>8, <1>a DEF fill_mark, LockHeld, Holds, FillPC
  <2>5. HeldMapped'
    BY <1>8, <1>a DEF fill_mark, HeldMapped
  <2>6. RefCount'
    BY <1>8, <1>a, RefSame DEF fill_mark
  <2> QED BY <1>b, <2>1, <2>3, <2>4, <2>5, <2>6
<1>9. ASSUME NEW c \in CPU, fill_gen(c) PROVE Book'
  <2>1. Shape'
    BY <1>9, <1>a DEF fill_gen, Shape, OpShape, HoldPC, FillPC, UpdatePC
  <2>2. SlotsLocal' /\ HeldMapped'
    BY <1>9, <1>a DEF fill_gen, SlotsLocal, HeldMapped
  <2>3. LockHeld'
    BY <1>9, <1>a DEF fill_gen, LockHeld, Holds, FillPC
  <2>4. RefCount'
    BY <1>9, <1>a, RefSame DEF fill_gen
  <2> QED BY <1>b, <2>1, <2>2, <2>3, <2>4
<1>12. ASSUME NEW c \in CPU, fill_store(c) PROVE Book'
  <2>1. Shape'
    BY <1>12, <1>a DEF fill_store, Shape, OpShape, HoldPC, FillPC, UpdatePC
  <2>2. SlotsLocal' /\ HeldMapped'
    BY Zenon, <1>12, <1>a DEF fill_store, SlotsLocal, HeldMapped
  <2>3. LockHeld'
    <3>1. \A d \in CPU : pc'[d]["main"] \notin FillPC
      BY <1>12, <1>a, PcType DEF fill_store, LockHeld, FillPC
    <3> QED BY <1>12, <3>1 DEF fill_store, LockHeld
  <2>4. RefCount'
    BY <1>12, <1>a, RefSame DEF fill_store
  <2> QED BY <1>b, <2>1, <2>2, <2>3, <2>4
<1>13. ASSUME NEW c \in CPU, reach_target(c) PROVE Book'
  <2>1. Shape'
    BY <1>13, <1>a DEF reach_target, Shape, OpShape, HoldPC, FillPC, UpdatePC
  <2>2. SlotsLocal' /\ HeldMapped'
    BY Zenon, <1>13, <1>a DEF reach_target, SlotsLocal, HeldMapped
  <2>3. LockHeld'
    BY <1>13, <1>a DEF reach_target, LockHeld, Holds, FillPC
  <2>4. RefCount'
    BY <1>13, <1>a, RefSame DEF reach_target
  <2> QED BY <1>b, <2>1, <2>2, <2>3, <2>4
<1>10. ASSUME NEW c \in CPU, pfn_put(c) PROVE Book'
  <2>0. frame[c] # None /\ va[c] \in Slot
    BY Zenon, <1>10, <1>a DEF pfn_put, Shape, OpShape, HoldPC, UpdatePC
  <2>1. Shape'
    BY <1>10, <1>a, PcType, OpType DEF pfn_put, Shape, OpShape, HoldPC, FillPC, UpdatePC
  <2>2. SlotsLocal' /\ HeldMapped'
    BY Zenon, <1>10, <1>a, OpType DEF pfn_put, SlotsLocal, HeldMapped
  <2>3. LockHeld'
    BY <1>10, <1>a DEF pfn_put, LockHeld, Holds, FillPC
  <2>4. RefCount'
    BY Zenon, <1>10, <1>a, <2>0, RefPut, OpType DEF pfn_put
  <2> QED BY <1>b, <2>1, <2>2, <2>3, <2>4
<1>11. ASSUME NEW c \in CPU,
              \/ \E v \in VA : TlbEvict(c, v)
              \/ ktlb_update_call(c) \/ reach_cmp(c) \/ Update(c, "main") \/ Nmi(c)
       PROVE  Book'
  BY <1>11, QuietSteps, BookQuiet
<1> QED
  BY <1>1, <1>2, <1>3, <1>4, <1>5, <1>6, <1>7, <1>8, <1>9, <1>10, <1>11,
     <1>12, <1>13
     DEF Next, Kmap, PfnCache

=============================================================================
