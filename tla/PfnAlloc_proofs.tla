--------------------------- MODULE PfnAlloc_proofs --------------------------
(***************************************************************************)
(* Proofs about the page allocator: for any CPUs, pages and allocators,    *)
(* the read-write lock keeps nux_set_allocator out of running calls, and   *)
(* pfnalloc.c implements PagePool.                                         *)
(***************************************************************************)
EXTENDS PfnAlloc, FiniteSetTheorems, TLAPS

\* The provers each step is given to, in this order.
USE SMTT(30), Z3T(30), Zenon

(* A CPU counted in r; one for which lg is taken as a reader, as a writer; *)
(* one that holds lr; one that holds pglock.                               *)
ReadPC == Calling \cup {"rl_lg", "rl_exit", "ru"}
HoldPC == Calling \cup {"rl_exit", "ru", "ru_exit"}
WritePC == {"w_alloc", "w_free", "wu"}
LrPC == {"rl_lg", "rl_exit", "ru_exit"}
PglockPC == {"a_load", "a_store"}

Readers == {c \in CPU : pc[c] \in ReadPC}

(* The locks.  r counts the readers; lg is held by the readers together or *)
(* by one writer, and the reader that waits for lg is the first.           *)
LockInv ==
  /\ r = Cardinality(Readers)
  /\ \A c \in CPU : lr = c <=> pc[c] \in LrPC
  /\ lg <=> \E c \in CPU : pc[c] \in HoldPC \cup WritePC
  /\ \A c, d \in CPU : pc[c] \in WritePC /\ c # d => pc[d] \notin HoldPC \cup WritePC
  /\ \A c, d \in CPU : pc[c] = "rl_lg" => pc[d] \notin HoldPC

(* pglock is held from the search of the bitmap to its update.             *)
PglockInv == \A c \in CPU : pglock = c <=> pc[c] \in PglockPC

(* What each CPU carries along: the operation, the page and the allocator  *)
(* it was dispatched to.                                                   *)
CallInv(c) ==
  /\ pc[c] = "idle" => pg[c] = None
  /\ pc[c] \in {"wl"} \cup WritePC => op[c] \in Allocator /\ pg[c] = None
  /\ pc[c] = "w_free" => palloc = op[c]
  /\ pc[c] \in ReadPC \cup {"rl", "ru_exit"} => op[c] \in {"low", "high", "free"}
  /\ pc[c] \in ReadPC \cup {"rl", "ru_exit"} /\ op[c] = "free" => pg[c] \in Page \ held[c]
  /\ pc[c] \in {"a_lock", "a_load", "a_store", "c_alloc"} => op[c] # "free"
  /\ pc[c] \in {"f_lock", "c_free", "i_load", "i_store"} => op[c] = "free"
  /\ pc[c] \in {"rl", "rl_lg", "rl_exit", "call", "a_lock", "c_alloc"} /\ op[c] # "free"
       => pg[c] = None
  /\ pc[c] \in PglockPC => pg[c] \in {Min(stree), Max(stree)} \cap stree
  /\ pc[c] \in {"a_lock", "f_lock"} \cup PglockPC => pfree = "stree"
  /\ pc[c] \in {"c_alloc", "c_free"} => pfree # "stree"
  /\ pc[c] = "a_store" /\ ~panic => tmp[c] # 0

(* The two function pointers differ only between the writer's two stores.  *)
SetInv == palloc = pfree \/ \E c \in CPU : pc[c] = "w_free"

Inv == TypeOK /\ LockInv /\ PglockInv /\ (\A c \in CPU : CallInv(c)) /\ SetInv

-----------------------------------------------------------------------------
(* A finite set of pages that is not empty has a lowest and a highest      *)
(* page.  A smallest counterexample would have both once a page is taken   *)
(* out of it.                                                              *)
LEMMA Extremes ==
  ASSUME NEW S \in SUBSET Page, S # {}
  PROVE  Min(S) \in S /\ Max(S) \in S
<1> DEFINE Has(T) == /\ \E x \in T : \A y \in T : x =< y
                     /\ \E x \in T : \A y \in T : x >= y
           Bad == {T \in FiniteSubsetsOf(Page) : T # {} /\ ~Has(T)}
<1>1. Bad = {}
  <2> SUFFICES ASSUME Bad # {} PROVE FALSE
    OBVIOUS
  <2>1. PICK T \in Bad : \A U \in Bad : <<U, T>> \notin StrictSubsetOrdering(Page)
    <3>1. IsWellFoundedOn(StrictSubsetOrdering(Page), FiniteSubsetsOf(Page))
      BY FS_StrictSubsetOrderingWellFounded
    <3>2. Bad \subseteq FiniteSubsetsOf(Page)
      OBVIOUS
    <3> HIDE DEF Bad
    <3> QED BY <3>1, <3>2, WFMin
  <2>2. T \subseteq Page /\ IsFiniteSet(T) /\ T # {} /\ ~Has(T)
    BY DEF FiniteSubsetsOf
  <2>3. PICK x : x \in T
    BY <2>2
  <2>4. T \ {x} # {}
    BY <2>2, <2>3, PfnAllocConstants
  <2>5. Has(T \ {x})
    <3>1. IsFiniteSet(T \ {x}) /\ T \ {x} \in SUBSET Page
      BY <2>2, FS_RemoveElement
    <3>2. <<T \ {x}, T>> \in StrictSubsetOrdering(Page)
      BY <2>2, <2>3 DEF StrictSubsetOrdering
    <3>3. T \ {x} \notin Bad
      BY Zenon, <2>1, <3>2
    <3> QED BY <2>4, <3>1, <3>3 DEF FiniteSubsetsOf
  <2>6. PICK lo \in T \ {x} : \A y \in T \ {x} : lo =< y
    BY <2>5
  <2>7. PICK hi \in T \ {x} : \A y \in T \ {x} : hi >= y
    BY <2>5
  <2>8. T \subseteq Nat
    BY <2>2, PfnAllocConstants
  <2>9. \E z \in T : \A y \in T : z =< y
    <3>1. CASE x =< lo
      BY <2>3, <2>6, <2>8, <3>1
    <3>2. CASE ~(x =< lo)
      BY <2>3, <2>6, <2>8, <3>2
    <3> QED BY <3>1, <3>2
  <2>10. \E z \in T : \A y \in T : z >= y
    <3>1. CASE x >= hi
      BY <2>3, <2>7, <2>8, <3>1
    <3>2. CASE ~(x >= hi)
      BY <2>3, <2>7, <2>8, <3>2
    <3> QED BY <3>1, <3>2
  <2> QED BY <2>2, <2>9, <2>10
<1>2. S \in FiniteSubsetsOf(Page)
  BY Zenon, PfnAllocConstants, FS_Subset DEF FiniteSubsetsOf
<1>3. Has(S)
  BY <1>1, <1>2
<1> QED BY <1>3 DEF Min, Max

-----------------------------------------------------------------------------
(* The control points and locks, out of TypeOK.                            *)
LEMMA PcType ==
  TypeOK => /\ pc \in [CPU -> PC] /\ lr \in CPU \cup {None} /\ lg \in BOOLEAN /\ r \in Nat
            /\ pglock \in CPU \cup {None}
  BY PfnAllocConstants, FS_CardinalityType DEF TypeOK

(* The CPUs are finitely many, so r can count those that read.             *)
LEMMA CountCpus ==
  ASSUME NEW S \in SUBSET CPU
  PROVE  /\ IsFiniteSet(S) /\ Cardinality(S) \in 0 .. Cardinality(CPU)
         /\ Cardinality(S) = 0 <=> S = {}
  BY PfnAllocConstants, FS_Subset, FS_CardinalityType, FS_EmptySet

(* A step that enters and leaves no lock.                                  *)
Kept(c) ==
  /\ UNCHANGED rwVars
  /\ \A d \in CPU : d # c => pc'[d] = pc[d]
  /\ pc'[c] \in ReadPC <=> pc[c] \in ReadPC
  /\ pc'[c] \in HoldPC <=> pc[c] \in HoldPC
  /\ pc'[c] \in WritePC <=> pc[c] \in WritePC
  /\ pc'[c] \in LrPC <=> pc[c] \in LrPC
  /\ pc'[c] = "rl_lg" <=> pc[c] = "rl_lg"

(* Such a step does not disturb the locks.                                 *)
LEMMA LockKept ==
  ASSUME LockInv, NEW c \in CPU, Kept(c)
  PROVE  LockInv'
<1>1. \A d \in CPU : /\ pc'[d] \in ReadPC <=> pc[d] \in ReadPC
                     /\ pc'[d] \in HoldPC <=> pc[d] \in HoldPC
                     /\ pc'[d] \in WritePC <=> pc[d] \in WritePC
                     /\ pc'[d] \in LrPC <=> pc[d] \in LrPC
                     /\ pc'[d] = "rl_lg" <=> pc[d] = "rl_lg"
  BY DEF Kept
<1>2. Readers' = Readers
  BY <1>1 DEF Readers
<1>3. lr' = lr /\ lg' = lg /\ r' = r
  BY DEF Kept, rwVars
<1> QED BY <1>1, <1>2, <1>3 DEF LockInv

(* Every step that moves neither lr, lg nor r.                             *)
Plain(c) ==
  \/ Call(c) \/ set_alloc(c) \/ set_free(c) \/ call(c)
  \/ stree_lock(c) \/ stree_load(c) \/ stree_store(c) \/ stree_pfnfree(c)
  \/ custom_alloc(c) \/ custom_free(c) \/ count_load(c) \/ count_store(c)

(* Those are the steps LockKept is about.                                  *)
LEMMA PlainKept ==
  ASSUME TypeOK, NEW c \in CPU, Plain(c)
  PROVE  Kept(c)
<1>a. pc \in [CPU -> PC]
  BY PcType
<1> USE <1>a DEF At, Goto, Kept, ReadPC, HoldPC, WritePC, LrPC, Calling
<1>1. ASSUME NEW low \in {"low", "high"}, pfn_alloc(c, low) PROVE Kept(c)
  BY <1>1 DEF pfn_alloc
<1>2. ASSUME NEW p \in Page, pfn_free(c, p) PROVE Kept(c)
  BY <1>2 DEF pfn_free
<1>3. ASSUME NEW a \in Switches, nux_set_allocator(c, a) PROVE Kept(c)
  BY <1>3 DEF nux_set_allocator
<1>4. CASE set_alloc(c)
  BY <1>4 DEF set_alloc
<1>5. CASE set_free(c)
  BY <1>5 DEF set_free
<1>6. CASE call(c)
  BY <1>6 DEF call
<1>7. CASE stree_lock(c)
  BY <1>7 DEF stree_lock
<1>8. CASE stree_load(c)
  BY <1>8 DEF stree_load
<1>9. CASE stree_store(c)
  BY <1>9 DEF stree_store
<1>10. CASE stree_pfnfree(c)
  BY <1>10 DEF stree_pfnfree
<1>11. CASE custom_alloc(c)
  BY <1>11 DEF custom_alloc
<1>12. CASE custom_free(c)
  BY <1>12 DEF custom_free
<1>13. CASE count_load(c)
  BY <1>13 DEF count_load
<1>14. CASE count_store(c)
  BY <1>14 DEF count_store
<1> HIDE DEF Kept
<1> QED BY Zenon, <1>1, <1>2, <1>3, <1>4, <1>5, <1>6, <1>7, <1>8, <1>9, <1>10, <1>11, <1>12, <1>13,
           <1>14 DEF Plain, Call

(* readlock, readunlock, writelock and writeunlock keep the locks right,   *)
(* whatever step of theirs interleaves with whose.                         *)
LEMMA LockStep ==
  ASSUME TypeOK, LockInv, [Next]_vars
  PROVE  LockInv'
<1>a. /\ pc \in [CPU -> PC] /\ lr \in CPU \cup {None} /\ lg \in BOOLEAN /\ r \in Nat
      /\ None \notin CPU
  BY PcType, PfnAllocConstants
<1>b. IsFiniteSet(Readers) /\ (r = 0 <=> Readers = {})
  BY CountCpus DEF LockInv, Readers
<1>c. LockInv /\ r = Cardinality(Readers)
  BY DEF LockInv
<1> USE <1>a DEF At, Goto, ReadPC, HoldPC, WritePC, LrPC, Calling
<1>1. ASSUME NEW c \in CPU, readlock_lr(c) PROVE LockInv'
  <2>1. Readers' = Readers \cup {c} /\ c \notin Readers
    BY <1>1 DEF readlock_lr, Readers
  <2>2. r' = Cardinality(Readers')
    <3>1. r' = r + 1
      BY <1>1 DEF readlock_lr
    <3>2. Cardinality(Readers \cup {c}) = Cardinality(Readers) + 1
      BY Zenon, <1>b, <2>1, FS_AddElement
    <3> QED BY <1>c, <2>1, <3>1, <3>2
  <2>3. \A d \in CPU : pc[d] \notin LrPC
    BY <1>1, <1>c DEF readlock_lr, LockInv
  <2>4. CASE r = 0
    <3>1. \A d \in CPU : pc[d] \notin ReadPC \cup HoldPC
      BY <1>b, <2>3, <2>4 DEF Readers
    <3> QED BY <1>1, <1>c, <2>2, <2>3, <2>4, <3>1 DEF readlock_lr, LockInv
  <2>5. CASE r # 0
    <3>1. PICK d \in CPU : pc[d] \in ReadPC \ {"rl_lg"}
      BY <1>b, <2>3, <2>5 DEF Readers
    <3>2. lg /\ \A e \in CPU : pc[e] \notin WritePC
      BY <1>c, <3>1 DEF LockInv
    <3> QED BY <1>1, <1>c, <2>2, <2>3, <2>5, <3>2 DEF readlock_lr, LockInv
  <2> QED BY <2>4, <2>5
<1>2. ASSUME NEW c \in CPU, readlock_lg(c) PROVE LockInv'
  <2>1. Readers' = Readers
    BY <1>2 DEF readlock_lg, Readers
  <2> QED BY <1>2, <1>c, <2>1 DEF readlock_lg, LockInv
<1>3. ASSUME NEW c \in CPU, readlock_exit(c) PROVE LockInv'
  <2>1. Readers' = Readers
    BY <1>3 DEF readlock_exit, Readers
  <2> QED BY <1>3, <1>c, <2>1 DEF readlock_exit, LockInv
<1>4. ASSUME NEW c \in CPU, readunlock_lr(c) PROVE LockInv'
  <2>1. Readers' = Readers \ {c} /\ c \in Readers
    BY <1>4 DEF readunlock_lr, Readers
  <2>2. r' = Cardinality(Readers')
    <3>1. r' = r - 1
      BY <1>4 DEF readunlock_lr
    <3>2. Cardinality(Readers \ {c}) = Cardinality(Readers) - 1
      BY Zenon, <1>b, <2>1, FS_RemoveElement
    <3> QED BY <1>c, <2>1, <3>1, <3>2
  <2> QED BY <1>4, <1>c, <2>2 DEF readunlock_lr, LockInv
<1>5. ASSUME NEW c \in CPU, readunlock_exit(c) PROVE LockInv'
  <2>1. Readers' = Readers
    BY <1>5 DEF readunlock_exit, Readers
  <2>2. \A d \in CPU : d # c => pc[d] \notin LrPC
    BY <1>5, <1>c DEF readunlock_exit, LockInv
  <2>3. CASE r = 0
    <3>1. \A d \in CPU : d # c => pc[d] \notin HoldPC \cup WritePC
      BY <1>5, <1>b, <1>c, <2>2, <2>3 DEF readunlock_exit, LockInv, Readers
    <3>2. ~lg'
      BY Zenon, <1>5, <2>3 DEF readunlock_exit, LastReader
    <3>3. /\ lr' = None /\ r' = r /\ pc'[c] = "idle"
          /\ \A d \in CPU : d # c => pc'[d] = pc[d]
      BY <1>5 DEF readunlock_exit
    <3> QED BY <1>c, <2>1, <2>2, <3>1, <3>2, <3>3 DEF LockInv
  <2>4. CASE r # 0
    <3>1. PICK d \in CPU : d # c /\ pc[d] \in ReadPC \ {"rl_lg"}
      BY <1>5, <1>b, <2>2, <2>4 DEF readunlock_exit, Readers
    <3> QED BY <1>5, <1>c, <2>1, <2>2, <2>4, <3>1 DEF readunlock_exit, LastReader, LockInv
  <2> QED BY <2>3, <2>4
<1>6. ASSUME NEW c \in CPU, writelock(c) PROVE LockInv'
  <2>1. Readers' = Readers
    BY <1>6 DEF writelock, Readers
  <2> QED BY <1>6, <1>c, <2>1 DEF writelock, WriterMayEnter, LockInv
<1>7. ASSUME NEW c \in CPU, writeunlock(c) PROVE LockInv'
  <2>1. Readers' = Readers
    BY <1>7 DEF writeunlock, Readers
  <2> QED BY <1>7, <1>c, <2>1 DEF writeunlock, LockInv
<1>8. CASE UNCHANGED vars
  BY <1>8 DEF vars, rwVars, LockInv, Readers
<1>9. ASSUME NEW c \in CPU, Plain(c) PROVE LockInv'
  BY <1>9, PlainKept, LockKept
<1> QED BY Zenon, <1>1, <1>2, <1>3, <1>4, <1>5, <1>6, <1>7, <1>8, <1>9 DEF Next, halted, Step, Plain

-----------------------------------------------------------------------------
(* pglock is taken and released by the CPU it names.                       *)
LEMMA PglockStep ==
  ASSUME TypeOK, PglockInv, [Next]_vars
  PROVE  PglockInv'
<1>a. pc \in [CPU -> PC] /\ pglock \in CPU \cup {None} /\ None \notin CPU
  BY PcType, PfnAllocConstants
<1>1. CASE UNCHANGED vars
  BY <1>1 DEF vars, pageVars, PglockInv
<1>2. ASSUME NEW c \in CPU, Call(c) \/ Step(c) PROVE PglockInv'
  <2> USE <1>a DEF At, Goto, pageVars, PglockPC, PglockInv
  <2>1. ASSUME NEW low \in {"low", "high"}, pfn_alloc(c, low) PROVE PglockInv'
    BY <2>1 DEF pfn_alloc
  <2>2. ASSUME NEW p \in Page, pfn_free(c, p) PROVE PglockInv'
    BY <2>2 DEF pfn_free
  <2>3. ASSUME NEW a \in Switches, nux_set_allocator(c, a) PROVE PglockInv'
    BY <2>3 DEF nux_set_allocator
  <2>4. CASE readlock_lr(c)
    BY <2>4 DEF readlock_lr
  <2>5. CASE readlock_lg(c)
    BY <2>5 DEF readlock_lg
  <2>6. CASE readlock_exit(c)
    BY <2>6 DEF readlock_exit
  <2>7. CASE readunlock_lr(c)
    BY <2>7 DEF readunlock_lr
  <2>8. CASE readunlock_exit(c)
    BY <2>8 DEF readunlock_exit
  <2>9. CASE writelock(c)
    BY <2>9 DEF writelock
  <2>10. CASE set_alloc(c)
    BY <2>10 DEF set_alloc
  <2>11. CASE set_free(c)
    BY <2>11 DEF set_free
  <2>12. CASE writeunlock(c)
    BY <2>12 DEF writeunlock
  <2>13. CASE call(c)
    BY <2>13 DEF call
  <2>14. CASE stree_lock(c)
    BY <2>14 DEF stree_lock, PglockFree
  <2>15. CASE stree_load(c)
    BY <2>15 DEF stree_load
  <2>16. CASE stree_store(c)
    BY <2>16 DEF stree_store
  <2>17. CASE stree_pfnfree(c)
    BY <2>17 DEF stree_pfnfree
  <2>18. CASE custom_alloc(c)
    BY <2>18 DEF custom_alloc
  <2>19. CASE custom_free(c)
    BY <2>19 DEF custom_free
  <2>20. CASE count_load(c)
    BY <2>20 DEF count_load
  <2>21. CASE count_store(c)
    BY <2>21 DEF count_store
  <2> HIDE DEF PglockInv
  <2> QED BY Zenon, <1>2, <2>1, <2>2, <2>3, <2>4, <2>5, <2>6, <2>7, <2>8, <2>9, <2>10, <2>11, <2>12,
             <2>13, <2>14, <2>15, <2>16, <2>17, <2>18, <2>19, <2>20, <2>21 DEF Call, Step
<1> QED BY Zenon, <1>1, <1>2 DEF Next, halted

(* What CallInv says of the other CPUs, and why it survives a step of c:   *)
(* only a writer moves the function pointers, only the holder of pglock,   *)
(* or a CPU that finds it free, changes the bitmap.                        *)
CallKept(c) ==
  \A d \in CPU :
    d # c => /\ pc'[d] = pc[d] /\ op'[d] = op[d] /\ pg'[d] = pg[d] /\ tmp'[d] = tmp[d]
             /\ held'[d] = held[d]
             /\ pc[d] \in HoldPC \cup WritePC => palloc' = palloc /\ pfree' = pfree
             /\ pc[d] \in PglockPC => stree' = stree
             /\ ~panic' => ~panic

(* So the invariant of the others is kept.                                 *)
LEMMA CallOthers ==
  ASSUME \A d \in CPU : CallInv(d), NEW c \in CPU, CallKept(c), CallInv(c)'
  PROVE  \A d \in CPU : CallInv(d)'
<1> SUFFICES ASSUME NEW d \in CPU, d # c PROVE CallInv(d)'
  OBVIOUS
<1>1. CallInv(d)
  OBVIOUS
<1>2. /\ pc'[d] = pc[d] /\ op'[d] = op[d] /\ pg'[d] = pg[d] /\ tmp'[d] = tmp[d]
      /\ held'[d] = held[d]
      /\ pc[d] \in HoldPC \cup WritePC => palloc' = palloc /\ pfree' = pfree
      /\ pc[d] \in PglockPC => stree' = stree
      /\ ~panic' => ~panic
  BY DEF CallKept
<1> QED BY <1>1, <1>2 DEF CallInv, HoldPC, WritePC, Calling, PglockPC

(* Each CPU arrives at every control point with the operation, the page    *)
(* and the allocator that the code there relies on.                        *)
LEMMA CallOwn ==
  ASSUME TypeOK, LockInv, PglockInv, SetInv, \A d \in CPU : CallInv(d),
         NEW c \in CPU, Call(c) \/ Step(c)
  PROVE  CallKept(c) /\ CallInv(c)'
<1>t. /\ pc \in [CPU -> PC] /\ op \in [CPU -> {"low", "high", "free", None} \cup Allocator]
      /\ pg \in [CPU -> Page \cup {None}] /\ tmp \in [CPU -> Nat]
      /\ held \in [CPU -> SUBSET Page] /\ stree \subseteq Page
      /\ None \notin CPU /\ None \notin Page /\ Switches \subseteq Allocator
  BY PfnAllocConstants DEF TypeOK
<1>a. CallInv(c)
  OBVIOUS
<1>b. stree # {} => Min(stree) \in stree /\ Max(stree) \in stree
  BY <1>t, Extremes
<1> USE <1>t, <1>a DEF At, Goto, rwVars, setVars, pageVars, ReadPC, HoldPC, WritePC,
        PglockPC, Calling, CallKept, CallInv
<1>1. ASSUME NEW low \in {"low", "high"}, pfn_alloc(c, low) PROVE CallKept(c) /\ CallInv(c)'
  BY <1>1 DEF pfn_alloc
<1>2. ASSUME NEW p \in Page, pfn_free(c, p) PROVE CallKept(c) /\ CallInv(c)'
  BY <1>2 DEF pfn_free
<1>3. ASSUME NEW a \in Switches, nux_set_allocator(c, a) PROVE CallKept(c) /\ CallInv(c)'
  BY <1>3 DEF nux_set_allocator
<1>4. CASE readlock_lr(c)
  BY <1>4 DEF readlock_lr
<1>5. CASE readlock_lg(c)
  BY <1>5 DEF readlock_lg
<1>6. CASE readlock_exit(c)
  BY <1>6 DEF readlock_exit
<1>7. CASE readunlock_lr(c)
  BY <1>7 DEF readunlock_lr
<1>8. CASE readunlock_exit(c)
  BY <1>8 DEF readunlock_exit
<1>9. CASE writelock(c)
  BY <1>9 DEF writelock
<1>10. CASE set_alloc(c)
  BY <1>10 DEF set_alloc, LockInv
<1>11. CASE set_free(c)
  BY <1>11 DEF set_free, LockInv
<1>12. CASE writeunlock(c)
  BY <1>12 DEF writeunlock
<1>13. CASE call(c)
  BY <1>13 DEF call, SetInv, LockInv
<1>14. CASE stree_lock(c)
  <2>1. CASE stree = {}
    BY <1>14, <2>1 DEF stree_lock
  <2>2. CASE stree # {}
    <3>1. stree_bitsearch(op[c]) \in {Min(stree), Max(stree)} \cap stree
      BY <1>b, <2>2 DEF stree_bitsearch
    <3>2. pfree = "stree" /\ op[c] # "free" /\ op[c] \in {"low", "high", "free"}
      BY <1>14 DEF stree_lock
    <3> HIDE <1>a
    <3>3. /\ pg' = [pg EXCEPT ![c] = stree_bitsearch(op[c])] /\ pc' = [pc EXCEPT ![c] = "a_load"]
          /\ UNCHANGED <<palloc, pfree, stree, op, tmp, held, panic>>
      BY <1>14, <2>2 DEF stree_lock
    <3>4. CallKept(c)
      BY <3>3
    <3>5. /\ pc'[c] = "a_load" /\ pg'[c] = stree_bitsearch(op[c]) /\ op'[c] = op[c]
          /\ pfree' = pfree /\ stree' = stree
      BY <3>3
    <3>6. CallInv(c)'
      BY <3>1, <3>2, <3>5
    <3> QED BY Zenon, <3>4, <3>6
  <2> QED BY <2>1, <2>2
<1>15. CASE stree_load(c)
  <2>1. ~panic' => free_pages # 0
    BY Zenon, <1>15 DEF stree_load, AssertFails
  <2>2. /\ tmp' = [tmp EXCEPT ![c] = free_pages] /\ pc' = [pc EXCEPT ![c] = "a_store"]
        /\ ~panic /\ UNCHANGED <<palloc, pfree, stree, op, pg, held>>
    BY <1>15 DEF stree_load
  <2>3. pc[c] = "a_load"
    BY <1>15 DEF stree_load
  <2> QED BY <2>1, <2>2, <2>3
<1>16. CASE stree_store(c)
  BY <1>16 DEF stree_store, PglockInv
<1>17. CASE stree_pfnfree(c)
  BY <1>17 DEF stree_pfnfree, PglockInv
<1>18. CASE custom_alloc(c)
  BY <1>18 DEF custom_alloc
<1>19. CASE custom_free(c)
  BY <1>19 DEF custom_free
<1>20. CASE count_load(c)
  BY <1>20 DEF count_load
<1>21. CASE count_store(c)
  BY <1>21 DEF count_store
<1> HIDE DEF CallKept, CallInv
<1> QED BY Zenon, <1>1, <1>2, <1>3, <1>4, <1>5, <1>6, <1>7, <1>8, <1>9, <1>10, <1>11, <1>12,
           <1>13, <1>14, <1>15, <1>16, <1>17, <1>18, <1>19, <1>20, <1>21 DEF Call, Step

(* Together: every CPU does.                                               *)
LEMMA CallStep ==
  ASSUME TypeOK, LockInv, PglockInv, SetInv, \A c \in CPU : CallInv(c), [Next]_vars
  PROVE  \A c \in CPU : CallInv(c)'
<1>1. CASE UNCHANGED vars
  BY <1>1 DEF vars, setVars, pageVars, CallInv
<1>2. CASE \E c \in CPU : Call(c) \/ Step(c)
  BY <1>2, CallOwn, CallOthers
<1> QED BY Zenon, <1>1, <1>2 DEF Next, halted

-----------------------------------------------------------------------------
(* nux_set_allocator stores both pointers before it lets a reader in.      *)
LEMMA SetStep ==
  ASSUME TypeOK, SetInv, \A c \in CPU : CallInv(c), [Next]_vars
  PROVE  SetInv'
<1>a. pc \in [CPU -> PC]
  BY PcType
<1>1. CASE UNCHANGED vars
  BY <1>1 DEF vars, setVars, SetInv
<1>2. ASSUME NEW c \in CPU, Call(c) \/ Step(c) PROVE SetInv'
  <2>a. pc[c] = "w_free" => palloc = op[c]
    BY DEF CallInv
  <2> USE <1>a, <2>a DEF At, Goto, setVars, SetInv
  <2>1. ASSUME NEW low \in {"low", "high"}, pfn_alloc(c, low) PROVE SetInv'
    BY <2>1 DEF pfn_alloc
  <2>2. ASSUME NEW p \in Page, pfn_free(c, p) PROVE SetInv'
    BY <2>2 DEF pfn_free
  <2>3. ASSUME NEW a \in Switches, nux_set_allocator(c, a) PROVE SetInv'
    BY <2>3 DEF nux_set_allocator
  <2>4. CASE readlock_lr(c)
    BY <2>4 DEF readlock_lr
  <2>5. CASE readlock_lg(c)
    BY <2>5 DEF readlock_lg
  <2>6. CASE readlock_exit(c)
    BY <2>6 DEF readlock_exit
  <2>7. CASE readunlock_lr(c)
    BY <2>7 DEF readunlock_lr
  <2>8. CASE readunlock_exit(c)
    BY <2>8 DEF readunlock_exit
  <2>9. CASE writelock(c)
    BY <2>9 DEF writelock
  <2>10. CASE set_alloc(c)
    BY <2>10 DEF set_alloc
  <2>11. CASE set_free(c)
    BY <2>11 DEF set_free
  <2>12. CASE writeunlock(c)
    BY <2>12 DEF writeunlock
  <2>13. CASE call(c)
    BY <2>13 DEF call
  <2>14. CASE stree_lock(c)
    BY <2>14 DEF stree_lock
  <2>15. CASE stree_load(c)
    BY <2>15 DEF stree_load
  <2>16. CASE stree_store(c)
    BY <2>16 DEF stree_store
  <2>17. CASE stree_pfnfree(c)
    BY <2>17 DEF stree_pfnfree
  <2>18. CASE custom_alloc(c)
    BY <2>18 DEF custom_alloc
  <2>19. CASE custom_free(c)
    BY <2>19 DEF custom_free
  <2>20. CASE count_load(c)
    BY <2>20 DEF count_load
  <2>21. CASE count_store(c)
    BY <2>21 DEF count_store
  <2> HIDE DEF SetInv
  <2> QED BY Zenon, <1>2, <2>1, <2>2, <2>3, <2>4, <2>5, <2>6, <2>7, <2>8, <2>9, <2>10, <2>11, <2>12,
             <2>13, <2>14, <2>15, <2>16, <2>17, <2>18, <2>19, <2>20, <2>21 DEF Call, Step
<1> QED BY Zenon, <1>1, <1>2 DEF Next, halted

(* A reader of the function pointers finds a pair that belongs together.   *)
LEMMA SameAllocator ==
  ASSUME LockInv, SetInv
  PROVE  OneAllocator
<1> SUFFICES ASSUME NEW c \in CPU, pc[c] \in Calling PROVE palloc = pfree /\ lg
  BY DEF OneAllocator
<1>1. lg /\ \A d \in CPU : pc[d] \notin WritePC
  BY DEF LockInv, HoldPC, WritePC, Calling
<1> QED BY <1>1 DEF SetInv, WritePC

(* Every step keeps the types: free_pages is decremented only after the    *)
(* assertion saw it above zero, r stays a count of CPUs, and a page in     *)
(* hand is there when it is freed.                                         *)
LEMMA TypeStep ==
  ASSUME TypeOK, LockInv, LockInv', SetInv, \A c \in CPU : CallInv(c), [Next]_vars
  PROVE  TypeOK'
<1>1. CASE UNCHANGED vars
  BY <1>1 DEF vars, rwVars, setVars, pageVars, TypeOK
<1>2. ASSUME NEW c \in CPU, Call(c) \/ Step(c) PROVE TypeOK'
  <2>r. r' \in 0 .. Cardinality(CPU)
    <3>1. Readers' \in SUBSET CPU /\ r' = Cardinality(Readers')
      BY DEF Readers, LockInv
    <3> QED BY <3>1, CountCpus
  <2>a. CallInv(c)
    OBVIOUS
  <2>b. stree # {} => Min(stree) \in stree /\ Max(stree) \in stree
    BY Extremes DEF TypeOK
  <2> USE <2>r DEF At, Goto, rwVars, setVars, pageVars, PC, Calling, TypeOK
  <2>1. ASSUME NEW low \in {"low", "high"}, pfn_alloc(c, low) PROVE TypeOK'
    BY <2>1 DEF pfn_alloc
  <2>2. ASSUME NEW p \in Page, pfn_free(c, p) PROVE TypeOK'
    BY <2>2 DEF pfn_free
  <2>3. ASSUME NEW a \in Switches, nux_set_allocator(c, a) PROVE TypeOK'
    <3>1. a \in Allocator
      BY PfnAllocConstants
    <3> QED BY <2>3, <3>1 DEF nux_set_allocator
  <2>4. CASE readlock_lr(c)
    BY <2>4 DEF readlock_lr
  <2>5. CASE readlock_lg(c)
    BY <2>5 DEF readlock_lg
  <2>6. CASE readlock_exit(c)
    BY <2>6 DEF readlock_exit
  <2>7. CASE readunlock_lr(c)
    BY <2>7 DEF readunlock_lr
  <2>8. CASE readunlock_exit(c)
    BY <2>8 DEF readunlock_exit
  <2>9. CASE writelock(c)
    BY <2>9 DEF writelock
  <2>10. CASE set_alloc(c)
    <3>1. op[c] \in Allocator
      BY <2>10, <2>a DEF set_alloc, CallInv, WritePC
    <3> QED BY <2>10, <3>1 DEF set_alloc
  <2>11. CASE set_free(c)
    <3>1. op[c] \in Allocator
      BY <2>11, <2>a DEF set_free, CallInv, WritePC
    <3> QED BY <2>11, <3>1 DEF set_free
  <2>12. CASE writeunlock(c)
    <3>1. /\ op' = [op EXCEPT ![c] = None] /\ pc' = [pc EXCEPT ![c] = "idle"]
          /\ UNCHANGED <<lr, r, setVars, pageVars, free_pages, pg, tmp, held, panic>>
      BY Zenon, <2>12 DEF writeunlock
    <3>2. op' \in [CPU -> {"low", "high", "free", None} \cup Allocator]
      BY <3>1
    <3>3. pc' \in [CPU -> PC]
      BY <3>1
    <3>4. lg' \in BOOLEAN
      BY Zenon, <2>12 DEF writeunlock
    <3> QED BY <3>1, <3>2, <3>3, <3>4
  <2>13. CASE call(c)
    <3>1. pc' \in [CPU -> PC]
      BY <2>13 DEF call
    <3> QED BY <2>13, <3>1 DEF call
  <2>14. CASE stree_lock(c)
    <3>1. CASE stree = {}
      BY <2>14, <3>1 DEF stree_lock
    <3>2. CASE stree # {}
      <4>1. stree_bitsearch(op[c]) \in Page
        BY <2>b, <3>2 DEF stree_bitsearch
      <4>2. /\ pg' = [pg EXCEPT ![c] = stree_bitsearch(op[c])] /\ pc' = [pc EXCEPT ![c] = "a_load"]
            /\ pglock' = c
            /\ UNCHANGED <<rwVars, setVars, stree, pool, free_pages, op, tmp, held, panic>>
        BY Zenon, <2>14, <3>2 DEF stree_lock
      <4> QED BY <4>1, <4>2
    <3> QED BY <3>1, <3>2
  <2>15. CASE stree_load(c)
    <3>1. panic' \in BOOLEAN
      BY Zenon, <2>15 DEF stree_load, AssertFails
    <3>2. /\ tmp' = [tmp EXCEPT ![c] = free_pages] /\ pc' = [pc EXCEPT ![c] = "a_store"]
          /\ UNCHANGED <<rwVars, setVars, pageVars, free_pages, op, pg, held>>
      BY <2>15 DEF stree_load
    <3> QED BY <3>1, <3>2
  <2>16. CASE stree_store(c)
    <3>1. free_pages' \in Nat
      BY <2>16, <2>a DEF stree_store, CallInv
    <3>2. stree' = stree \ {pg[c]} /\ pglock' = None
      BY Zenon, <2>16 DEF stree_store
    <3>3. /\ tmp' = [tmp EXCEPT ![c] = 0] /\ pc' = [pc EXCEPT ![c] = "ru"]
          /\ UNCHANGED <<rwVars, setVars, pool, op, pg, held, panic>>
      BY <2>16 DEF stree_store
    <3> QED BY <3>1, <3>2, <3>3
  <2>17. CASE stree_pfnfree(c)
    <3>1. pg[c] \in Page
      BY <2>17, <2>a DEF stree_pfnfree, CallInv, ReadPC
    <3>2. /\ stree' = stree \cup {pg[c]} /\ pc' = [pc EXCEPT ![c] = "i_load"]
          /\ UNCHANGED <<rwVars, setVars, pglock, pool, free_pages, op, pg, tmp, held, panic>>
      BY Zenon, <2>17 DEF stree_pfnfree
    <3> QED BY <3>1, <3>2
  <2>18. CASE custom_alloc(c)
    <3>1. CASE UNCHANGED <<pool, pg>>
      BY <2>18, <3>1 DEF custom_alloc
    <3>2. ASSUME NEW p \in pool[palloc], pool' = [pool EXCEPT ![palloc] = @ \ {p}],
                 pg' = [pg EXCEPT ![c] = p]
          PROVE  TypeOK'
      <4>1. palloc \in Allocator \ {"stree"}
        BY <2>18, <2>a, SameAllocator DEF custom_alloc, CallInv, OneAllocator
      <4> QED BY <2>18, <3>2, <4>1 DEF custom_alloc
    <3> QED BY Zenon, <2>18, <3>1, <3>2 DEF custom_alloc
  <2>19. CASE custom_free(c)
    <3>1. pg[c] \in Page /\ pfree \in Allocator \ {"stree"}
      BY <2>19, <2>a DEF custom_free, CallInv, ReadPC
    <3>2. pool' \in [Allocator \ {"stree"} -> SUBSET Page]
      BY <2>19, <3>1 DEF custom_free
    <3> QED BY <2>19, <3>2 DEF custom_free
  <2>20. CASE count_load(c)
    BY <2>20 DEF count_load
  <2>21. CASE count_store(c)
    BY <2>21 DEF count_store
  <2> HIDE DEF TypeOK
  <2> QED BY Zenon, <1>2, <2>1, <2>2, <2>3, <2>4, <2>5, <2>6, <2>7, <2>8, <2>9, <2>10, <2>11, <2>12,
             <2>13, <2>14, <2>15, <2>16, <2>17, <2>18, <2>19, <2>20, <2>21 DEF Call, Step
<1> QED BY Zenon, <1>1, <1>2 DEF Next, halted

-----------------------------------------------------------------------------
(* The invariant is inductive.                                             *)
LEMMA InvStep == Inv /\ [Next]_vars => Inv'
<1> SUFFICES ASSUME Inv, [Next]_vars PROVE Inv'
  OBVIOUS
<1>1. TypeOK /\ LockInv /\ PglockInv /\ SetInv /\ \A c \in CPU : CallInv(c)
  BY DEF Inv
<1>2. LockInv' /\ PglockInv'
  BY <1>1, LockStep, PglockStep
<1>3. SetInv' /\ \A c \in CPU : CallInv(c)'
  BY <1>1, SetStep, CallStep
<1>4. TypeOK'
  BY <1>1, <1>2, TypeStep
<1> QED BY <1>2, <1>3, <1>4 DEF Inv

(* It holds at boot and after every step.                                  *)
THEOREM InvHolds == Spec => []Inv
<1>1. Init => Inv
  <2> SUFFICES ASSUME Init PROVE Inv
    OBVIOUS
  <2>1. TypeOK
    <3>1. Cardinality(Page) \in Nat /\ Cardinality(CPU) \in Nat
      BY PfnAllocConstants, FS_CardinalityType
    <3>2. lg \in BOOLEAN /\ panic \in BOOLEAN
      BY Zenon DEF Init
    <3>3. pc \in [CPU -> PC]
      BY DEF Init, PC
    <3> QED BY <3>1, <3>2, <3>3, PfnAllocConstants DEF Init, TypeOK
  <2>2. LockInv
    <3>1. Readers = {}
      BY DEF Init, Readers, ReadPC, Calling
    <3> QED BY <3>1, FS_EmptySet, PfnAllocConstants DEF Init, LockInv, HoldPC, WritePC, LrPC, Calling
  <2>3. PglockInv /\ SetInv
    BY PfnAllocConstants DEF Init, PglockInv, PglockPC, SetInv
  <2>4. \A c \in CPU : CallInv(c)
    BY DEF Init, CallInv, ReadPC, WritePC, PglockPC, Calling
  <2> QED BY <2>1, <2>2, <2>3, <2>4 DEF Inv
<1> QED BY <1>1, InvStep, PTL DEF Spec

(* The state of pfnalloc.c keeps its types: free_pages never goes below    *)
(* zero, and r never counts more readers than there are CPUs.              *)
THEOREM TypeCorrect == Spec => []TypeOK
<1>1. Inv => TypeOK
  BY DEF Inv
<1> QED BY <1>1, InvHolds, PTL

(* While a call runs, the two function pointers belong together and the    *)
(* lock keeps nux_set_allocator from replacing them.                       *)
THEOREM NoSwitchUnderCall == Spec => []OneAllocator
<1>1. Inv => OneAllocator
  BY SameAllocator DEF Inv
<1> QED BY <1>1, InvHolds, PTL

-----------------------------------------------------------------------------
(* A step of c changes what PagePool sees of c only.                       *)
LEMMA OutStep ==
  ASSUME NEW c \in CPU, CallKept(c)
  PROVE  OutPages' = [OutPages EXCEPT ![c] = held'[c] \cup InHand(c)']
<1>1. \A d \in CPU : d # c => InHand(d)' = InHand(d) /\ held'[d] = held[d]
  BY DEF CallKept, InHand
<1> QED BY Zenon, <1>1 DEF OutPages

(* The steps that PagePool does not see.                                   *)
LEMMA AbsStutter ==
  ASSUME NEW c \in CPU, CallKept(c), UNCHANGED <<stree, pool, pfree>>,
         held'[c] \cup InHand(c)' = held[c] \cup InHand(c)
  PROVE  UNCHANGED <<FreePages, OutPages, pfree>>
<1>1. OutPages' = OutPages
  BY Zenon, OutStep DEF OutPages
<1> QED BY <1>1 DEF FreePages

(* A page leaves an allocator when its bit is cleared, or when the         *)
(* installed allocator gives it away.                                      *)
LEMMA AbsAlloc ==
  ASSUME Inv, NEW c \in CPU, CallKept(c), stree_store(c) \/ custom_alloc(c)
  PROVE  [Abs!Next]_<<FreePages, OutPages, pfree>>
<1>a. /\ pool \in [Allocator \ {"stree"} -> SUBSET Page] /\ stree \subseteq Page
      /\ pfree \in Allocator /\ pc \in [CPU -> PC] /\ pg \in [CPU -> Page \cup {None}]
      /\ "stree" \in Allocator /\ None \notin Page
  BY PfnAllocConstants DEF Inv, TypeOK
<1>b. CallInv(c) /\ OneAllocator
  BY SameAllocator DEF Inv
<1>1. CASE stree_store(c)
  <2>1. /\ pc[c] = "a_store" /\ pfree = "stree" /\ pg[c] \in {Min(stree), Max(stree)} \cap stree
        /\ op[c] # "free"
    BY <1>1, <1>b DEF stree_store, At, CallInv, PglockPC
  <2>2. stree' = stree \ {pg[c]} /\ pc'[c] = "ru" /\ UNCHANGED <<pool, pfree, op, pg, held>>
    BY <1>1, <1>a DEF stree_store, At, Goto, setVars
  <2>3. FreePages' = [FreePages EXCEPT !["stree"] = FreePages["stree"] \ {pg[c]}]
    BY Zenon, <1>a, <2>2 DEF FreePages
  <2>4. InHand(c) = {} /\ InHand(c)' = {pg[c]}
    BY <1>a, <2>1, <2>2 DEF InHand
  <2>5. OutPages' = [OutPages EXCEPT ![c] = OutPages[c] \cup {pg[c]}]
    BY <2>2, <2>4, OutStep DEF OutPages
  <2>6. FreePages["stree"] = stree
    BY <1>a DEF FreePages
  <2>7. Abs!Alloc(c, pg[c])
    <3>1. /\ pg[c] \in FreePages[pfree]
          /\ pg[c] \in {Abs!Min(FreePages[pfree]), Abs!Max(FreePages[pfree])}
      BY Zenon, <2>1, <2>6 DEF Min, Max, Abs!Min, Abs!Max
    <3>2. FreePages' = [FreePages EXCEPT ![pfree] = @ \ {pg[c]}]
      BY Zenon, <2>1, <2>3
    <3>3. pfree' = pfree
      BY <2>2
    <3> QED BY <2>5, <3>1, <3>2, <3>3 DEF Abs!Alloc
  <2> QED BY <1>a, <2>1, <2>7 DEF Abs!Next
<1>2. CASE custom_alloc(c)
  <2>1. /\ pc[c] = "c_alloc" /\ pfree # "stree" /\ palloc = pfree /\ op[c] # "free" /\ pg[c] = None
    BY <1>2, <1>b DEF custom_alloc, At, CallInv, OneAllocator, Calling
  <2>2. pc'[c] = "ru" /\ UNCHANGED <<stree, pfree, op, held>>
    BY <1>2, <1>a DEF custom_alloc, At, Goto, setVars
  <2>3. CASE UNCHANGED <<pool, pg>>
    <3>1. InHand(c)' = InHand(c)
      BY <2>1, <2>3 DEF InHand
    <3> QED BY <2>2, <2>3, <3>1, AbsStutter
  <2>4. ASSUME NEW p \in pool[palloc], pool' = [pool EXCEPT ![palloc] = @ \ {p}],
               pg' = [pg EXCEPT ![c] = p]
        PROVE  Abs!Next
    <3>1. p \in Page /\ p \in FreePages[pfree]
      BY <1>a, <2>1 DEF FreePages
    <3>2. FreePages' = [FreePages EXCEPT ![pfree] = FreePages[pfree] \ {p}]
      BY Zenon, <1>a, <2>1, <2>2, <2>4 DEF FreePages
    <3>3. InHand(c) = {} /\ InHand(c)' = {p}
      BY <1>a, <2>1, <2>2, <2>4, <3>1 DEF InHand
    <3>4. OutPages' = [OutPages EXCEPT ![c] = OutPages[c] \cup {p}]
      BY <2>2, <3>3, OutStep DEF OutPages
    <3>5. Abs!Alloc(c, p)
      BY <2>1, <2>2, <3>1, <3>2, <3>4 DEF Abs!Alloc
    <3> QED BY <3>1, <3>5 DEF Abs!Next
  <2> QED BY Zenon, <1>2, <2>3, <2>4 DEF custom_alloc
<1> QED BY <1>1, <1>2

(* A page goes back to the allocator in force.                             *)
LEMMA AbsFree ==
  ASSUME Inv, NEW c \in CPU, CallKept(c), stree_pfnfree(c) \/ custom_free(c)
  PROVE  Abs!Next
<1>a. /\ pool \in [Allocator \ {"stree"} -> SUBSET Page] /\ stree \subseteq Page
      /\ pfree \in Allocator /\ pc \in [CPU -> PC] /\ pg \in [CPU -> Page \cup {None}]
      /\ "stree" \in Allocator /\ None \notin Page
  BY PfnAllocConstants DEF Inv, TypeOK
<1>b. CallInv(c)
  BY DEF Inv
<1>1. /\ pc[c] \in {"f_lock", "c_free"} /\ op[c] = "free" /\ pg[c] \in Page \ held[c]
  BY <1>b DEF stree_pfnfree, custom_free, At, CallInv, ReadPC, Calling
<1>2. pc'[c] = "i_load" /\ UNCHANGED <<pfree, op, held, pg>>
  BY <1>a DEF stree_pfnfree, custom_free, At, Goto, setVars
<1>3. FreePages' = [FreePages EXCEPT ![pfree] = FreePages[pfree] \cup {pg[c]}]
  <2>1. CASE stree_pfnfree(c)
    <3>1. pfree = "stree" /\ stree' = stree \cup {pg[c]} /\ pool' = pool
      BY <2>1, <1>b DEF stree_pfnfree, At, CallInv
    <3> QED BY Zenon, <1>a, <3>1 DEF FreePages
  <2>2. CASE custom_free(c)
    <3>1. pfree # "stree" /\ stree' = stree /\ pool' = [pool EXCEPT ![pfree] = @ \cup {pg[c]}]
      BY <2>2, <1>b DEF custom_free, At, CallInv
    <3> QED BY Zenon, <1>a, <1>2, <3>1 DEF FreePages
  <2> QED BY <2>1, <2>2
<1>4. InHand(c) = {pg[c]} /\ InHand(c)' = {}
  BY <1>a, <1>1, <1>2 DEF InHand
<1>5. OutPages[c] = held[c] \cup {pg[c]}
  BY <1>4 DEF OutPages
<1>6. OutPages' = [OutPages EXCEPT ![c] = OutPages[c] \ {pg[c]}]
  BY <1>1, <1>2, <1>4, <1>5, OutStep
<1>7. Abs!Free(c, pg[c])
  BY <1>2, <1>3, <1>5, <1>6 DEF Abs!Free
<1> QED BY <1>1, <1>7 DEF Abs!Next

(* The other steps of a call move a page between held and the hand, or     *)
(* nothing at all.                                                         *)
Unseen(c) ==
  \/ Call(c)
  \/ readlock_lr(c) \/ readlock_lg(c) \/ readlock_exit(c)
  \/ readunlock_lr(c) \/ readunlock_exit(c)
  \/ writelock(c) \/ set_alloc(c) \/ writeunlock(c)
  \/ call(c) \/ stree_lock(c) \/ stree_load(c) \/ count_load(c) \/ count_store(c)

(* PagePool sees none of them.                                             *)
LEMMA AbsUnseen ==
  ASSUME Inv, NEW c \in CPU, CallKept(c), Unseen(c)
  PROVE  UNCHANGED <<FreePages, OutPages, pfree>>
<1>a. /\ pc \in [CPU -> PC] /\ pg \in [CPU -> Page \cup {None}] /\ held \in [CPU -> SUBSET Page]
      /\ op \in [CPU -> {"low", "high", "free", None} \cup Allocator] /\ None \notin Page
  BY PfnAllocConstants DEF Inv, TypeOK
<1>b. CallInv(c)
  BY DEF Inv
<1> DEFINE Same == /\ UNCHANGED <<stree, pool, pfree>>
                   /\ held'[c] \cup InHand(c)' = held[c] \cup InHand(c)
<1> USE <1>a, <1>b DEF At, Goto, setVars, pageVars, InHand, CallInv, ReadPC, WritePC, PglockPC,
        Calling
<1>1. ASSUME NEW low \in {"low", "high"}, pfn_alloc(c, low) PROVE Same
  BY <1>1 DEF pfn_alloc
<1>2. ASSUME NEW p \in Page, pfn_free(c, p) PROVE Same
  BY <1>2 DEF pfn_free
<1>3. ASSUME NEW a \in Switches, nux_set_allocator(c, a) PROVE Same
  BY <1>3 DEF nux_set_allocator
<1>4. ASSUME readlock_lr(c) PROVE Same
  BY <1>4 DEF readlock_lr
<1>5. ASSUME readlock_lg(c) PROVE Same
  BY <1>5 DEF readlock_lg
<1>6. ASSUME readlock_exit(c) PROVE Same
  BY <1>6 DEF readlock_exit
<1>7. ASSUME readunlock_lr(c) PROVE Same
  BY <1>7 DEF readunlock_lr
<1>8. ASSUME readunlock_exit(c) PROVE Same
  BY <1>8 DEF readunlock_exit
<1>9. ASSUME writelock(c) PROVE Same
  BY <1>9 DEF writelock
<1>10. ASSUME set_alloc(c) PROVE Same
  BY <1>10 DEF set_alloc
<1>11. ASSUME writeunlock(c) PROVE Same
  BY <1>11 DEF writeunlock
<1>12. ASSUME call(c) PROVE Same
  BY <1>12 DEF call
<1>13. ASSUME stree_lock(c) PROVE Same
  BY <1>13 DEF stree_lock
<1>14. ASSUME stree_load(c) PROVE Same
  BY <1>14 DEF stree_load
<1>15. ASSUME count_load(c) PROVE Same
  BY <1>15 DEF count_load
<1>16. ASSUME count_store(c) PROVE Same
  BY <1>16 DEF count_store
<1> HIDE DEF Same
<1>17. Same
  BY Zenon, <1>1, <1>2, <1>3, <1>4, <1>5, <1>6, <1>7, <1>8, <1>9, <1>10, <1>11, <1>12, <1>13, <1>14,
     <1>15, <1>16 DEF Unseen, Call
<1> QED BY Zenon, <1>17, AbsStutter DEF Same

(* Every step of pfnalloc.c is a step of PagePool or none.                 *)
LEMMA AbsStep ==
  ASSUME Inv, [Next]_vars
  PROVE  [Abs!Next]_<<FreePages, OutPages, pfree>>
<1>1. CASE UNCHANGED vars
  BY Zenon, <1>1 DEF vars, setVars, pageVars, FreePages, OutPages, InHand
<1>2. ASSUME NEW c \in CPU, Call(c) \/ Step(c) PROVE [Abs!Next]_<<FreePages, OutPages, pfree>>
  <2>1. CallKept(c)
    BY <1>2, CallOwn DEF Inv
  <2>2. CASE Unseen(c)
    BY <2>1, <2>2, AbsUnseen
  <2>3. CASE stree_store(c) \/ custom_alloc(c)
    BY <2>1, <2>3, AbsAlloc
  <2>4. CASE stree_pfnfree(c) \/ custom_free(c)
    BY <2>1, <2>4, AbsFree
  <2>5. CASE set_free(c)
    <3>1. op[c] \in Allocator
      BY <2>5 DEF set_free, At, Inv, CallInv, WritePC
    <3>2. pfree' = op[c] /\ UNCHANGED <<stree, pool, held, op, pg>>
      BY <2>5 DEF set_free, pageVars
    <3>3. pc[c] = "w_free" /\ pc'[c] = "wu"
      BY <2>5 DEF set_free, At, Goto, Inv, TypeOK
    <3>4. InHand(c)' = InHand(c)
      BY <3>2, <3>3 DEF InHand
    <3>5. UNCHANGED <<FreePages, OutPages>>
      BY Zenon, <2>1, <3>2, <3>4, OutStep DEF FreePages, OutPages
    <3>6. Abs!SetAllocator(op[c])
      BY <3>2, <3>5 DEF Abs!SetAllocator
    <3> QED BY <3>1, <3>6 DEF Abs!Next
  <2> QED BY Zenon, <1>2, <2>2, <2>3, <2>4, <2>5 DEF Step, Unseen
<1> QED BY Zenon, <1>1, <1>2 DEF Next, halted

(* pfnalloc.c implements PagePool.                                         *)
THEOREM ImplementsPagePool == Spec => IsPagePool
<1>1. Init => Abs!Init
  BY DEF Init, Abs!Init, FreePages, OutPages, InHand
<1>2. Inv /\ [Next]_vars => [Abs!Next]_<<FreePages, OutPages, pfree>>
  BY AbsStep
<1> QED BY <1>1, <1>2, InvHolds, PTL DEF Spec, IsPagePool, Abs!Spec

-----------------------------------------------------------------------------
(* What PagePool promises keeps a page with one owner.                     *)
LEMMA OnceStep ==
  ASSUME Inv, PageOnce, [Abs!Next]_<<FreePages, OutPages, pfree>>
  PROVE  PageOnce'
<1> DEFINE Once(q) ==
      /\ \A a, b \in Allocator : q \in FreePages'[a] /\ q \in FreePages'[b] => a = b
      /\ \A c, d \in CPU : q \in OutPages'[c] /\ q \in OutPages'[d] => c = d
      /\ \A a \in Allocator, c \in CPU : ~(q \in FreePages'[a] /\ q \in OutPages'[c])
<1>1. FreePages = [a \in Allocator |-> FreePages[a]] /\ OutPages = [c \in CPU |-> OutPages[c]]
  BY DEF FreePages, OutPages
<1>2. pfree \in Allocator
  BY DEF Inv, TypeOK
<1>3. \A q : /\ \A a, b \in Allocator : q \in FreePages[a] /\ q \in FreePages[b] => a = b
             /\ \A c, d \in CPU : q \in OutPages[c] /\ q \in OutPages[d] => c = d
             /\ \A a \in Allocator, c \in CPU : ~(q \in FreePages[a] /\ q \in OutPages[c])
  BY DEF PageOnce, Abs!PageOnce
<1>4. SUFFICES ASSUME NEW q PROVE Once(q)
  BY DEF PageOnce, Abs!PageOnce
<1>5. CASE UNCHANGED <<FreePages, OutPages, pfree>>
  BY <1>3, <1>5
<1>6. ASSUME NEW c \in CPU, NEW p \in Page, Abs!Alloc(c, p) PROVE Once(q)
  <2>1. \A a \in Allocator : q \in FreePages'[a] <=> q \in FreePages[a] /\ ~(a = pfree /\ q = p)
    BY <1>1, <1>6 DEF Abs!Alloc
  <2>2. \A d \in CPU : q \in OutPages'[d] <=> q \in OutPages[d] \/ (d = c /\ q = p)
    BY <1>1, <1>6 DEF Abs!Alloc
  <2>3. p \in FreePages[pfree]
    BY <1>6 DEF Abs!Alloc
  <2> QED BY <1>2, <1>3, <2>1, <2>2, <2>3
<1>7. ASSUME NEW c \in CPU, NEW p \in Page, Abs!Free(c, p) PROVE Once(q)
  <2>1. \A a \in Allocator : q \in FreePages'[a] <=> q \in FreePages[a] \/ (a = pfree /\ q = p)
    BY <1>1, <1>7 DEF Abs!Free
  <2>2. \A d \in CPU : q \in OutPages'[d] <=> q \in OutPages[d] /\ ~(d = c /\ q = p)
    BY <1>1, <1>7 DEF Abs!Free
  <2>3. p \in OutPages[c]
    BY <1>7 DEF Abs!Free
  <2> QED BY <1>2, <1>3, <2>1, <2>2, <2>3
<1>8. ASSUME NEW a \in Allocator, Abs!SetAllocator(a) PROVE Once(q)
  BY <1>3, <1>8 DEF Abs!SetAllocator
<1> QED BY Zenon, <1>5, <1>6, <1>7, <1>8 DEF Abs!Next

(* No two CPUs are ever given the same page, and no page is both free and  *)
(* in use, whatever the CPUs do at once and whoever replaces the           *)
(* allocator.                                                              *)
THEOREM PagesOwnedOnce == Spec => []PageOnce
<1>1. Init => PageOnce
  BY DEF Init, PageOnce, Abs!PageOnce, FreePages, OutPages, InHand
<1>2. Inv /\ PageOnce /\ [Next]_vars => PageOnce'
  BY AbsStep, OnceStep
<1> QED BY <1>1, <1>2, InvHolds, PTL DEF Spec

=============================================================================
