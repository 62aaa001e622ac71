---------------------------- MODULE Slab_proofs -----------------------------
(***************************************************************************)
(* Proofs about Slab, for every number of CPUs, slabs and objects.         *)
(***************************************************************************)
EXTENDS Slab, SequenceTheorems, FiniteSetTheorems, TLAPS

\* The provers each step is given to, in this order.
USE SMTT(30), Z3T(30), Zenon

-----------------------------------------------------------------------------
(* What the list operations do to the elements of a list.                  *)

(* A list without repetitions.                                             *)
List(q) == q \in Seq(SlabId) /\ IsInjective(q)

(* LIST_INSERT_HEAD.                                                       *)
LEMMA InsertHead ==
  ASSUME NEW q, List(q), NEW s \in SlabId, s \notin Range(q)
  PROVE  /\ List(<<s>> \o q)
         /\ Range(<<s>> \o q) = Range(q) \cup {s}
         /\ Len(<<s>> \o q) = Len(q) + 1
<1> DEFINE t == <<s>> \o q
<1>1. q \in Seq(SlabId) /\ Len(q) \in Nat /\ DOMAIN q = 1 .. Len(q)
  BY LenProperties DEF List
<1>2. <<s>> \in Seq(SlabId) /\ Len(<<s>>) = 1 /\ <<s>>[1] = s
  OBVIOUS
<1>3. /\ t \in Seq(SlabId) /\ Len(t) = Len(q) + 1 /\ DOMAIN t = 1 .. Len(q) + 1
      /\ \A i \in 1 .. Len(q) + 1 : t[i] = IF i <= 1 THEN s ELSE q[i - 1]
  <2>1. t \in Seq(SlabId) /\ Len(t) = 1 + Len(q)
    BY <1>1, <1>2, ConcatProperties
  <2>2. \A i \in 1 .. 1 + Len(q) : t[i] = IF i <= 1 THEN <<s>>[i] ELSE q[i - 1]
    BY <1>1, <1>2, ConcatProperties
  <2>3. DOMAIN t = 1 .. Len(t)
    BY <2>1, LenProperties
  <2> HIDE DEF t
  <2> QED BY <1>1, <1>2, <2>1, <2>2, <2>3
<1> HIDE DEF t
<1>4. \A x : x \in Range(q) <=> \E i \in 1 .. Len(q) : q[i] = x
  BY <1>1 DEF Range
<1>5. \A x : x \in Range(t) <=> \E i \in 1 .. Len(q) + 1 : t[i] = x
  BY <1>3 DEF Range
<1>6. t[1] = s /\ \A i \in 1 .. Len(q) : t[i + 1] = q[i]
  BY <1>1, <1>3
<1>7. ASSUME NEW x PROVE x \in Range(t) <=> x \in Range(q) \cup {s}
  <2>1. ASSUME x \in Range(t) PROVE x \in Range(q) \cup {s}
    <3>1. PICK i \in 1 .. Len(q) + 1 : t[i] = x
      BY <1>5, <2>1
    <3>2. i = 1 \/ i - 1 \in 1 .. Len(q)
      BY <1>1
    <3> QED BY <1>1, <1>3, <1>4, <3>1, <3>2
  <2>2. ASSUME x \in Range(q) PROVE x \in Range(t)
    BY <1>1, <1>4, <1>5, <1>6, <2>2
  <2>3. s \in Range(t)
    BY <1>1, <1>5, <1>6
  <2> QED BY <2>1, <2>2, <2>3
<1>8. IsInjective(t)
  <2> SUFFICES ASSUME NEW i \in 1 .. Len(q) + 1, NEW j \in 1 .. Len(q) + 1, t[i] = t[j], i < j
               PROVE  FALSE
    BY <1>1, <1>3 DEF IsInjective
  <2>1. j - 1 \in 1 .. Len(q) /\ t[j] = q[j - 1]
    BY <1>1, <1>3
  <2>2. CASE i = 1
    BY <1>3, <1>4, <2>1, <2>2
  <2>3. CASE i # 1
    <3>1. i - 1 \in 1 .. Len(q) /\ t[i] = q[i - 1]
      BY <1>1, <1>3, <2>3
    <3> QED BY <1>1, <2>1, <3>1 DEF List, IsInjective
  <2> QED BY <2>2, <2>3
<1> QED BY <1>3, <1>7, <1>8 DEF List, t

(* t is q without its element at place k.                                  *)
Without(q, k, t) ==
  /\ k \in 1 .. Len(q) /\ t \in Seq(SlabId) /\ Len(t) = Len(q) - 1
  /\ \A i \in 1 .. Len(q) - 1 : t[i] = IF i < k THEN q[i] ELSE q[i + 1]

(* LIST_REMOVE.                                                            *)
LEMMA Removed ==
  ASSUME NEW q, NEW k, NEW t, List(q), Without(q, k, t)
  PROVE  List(t) /\ Range(t) = Range(q) \ {q[k]}
<1>0. /\ k \in 1 .. Len(q) /\ t \in Seq(SlabId) /\ Len(t) = Len(q) - 1
      /\ \A i \in 1 .. Len(q) - 1 : t[i] = IF i < k THEN q[i] ELSE q[i + 1]
  BY Zenon DEF Without
<1>1. q \in Seq(SlabId) /\ Len(q) \in Nat /\ DOMAIN q = 1 .. Len(q) /\ DOMAIN t = 1 .. Len(q) - 1
  BY <1>0, LenProperties DEF List
<1>2. \A i, j \in 1 .. Len(q) : q[i] = q[j] => i = j
  BY <1>1 DEF List, IsInjective
<1>3. \A x : x \in Range(q) <=> \E i \in 1 .. Len(q) : q[i] = x
  BY <1>1 DEF Range
<1>4. \A x : x \in Range(t) <=> \E i \in 1 .. Len(q) - 1 : t[i] = x
  BY <1>1 DEF Range
<1> DEFINE From(i) == IF i < k THEN i ELSE i + 1
<1>5. \A i \in 1 .. Len(q) - 1 : t[i] = q[From(i)] /\ From(i) \in 1 .. Len(q) /\ From(i) # k
  BY <1>0, <1>1
<1>6. \A i, j \in 1 .. Len(q) - 1 : From(i) = From(j) => i = j
  BY <1>0, <1>1
<1>7. \A j \in 1 .. Len(q) : j # k => \E i \in 1 .. Len(q) - 1 : From(i) = j
  <2> SUFFICES ASSUME NEW j \in 1 .. Len(q), j # k
               PROVE  \E i \in 1 .. Len(q) - 1 : From(i) = j
    OBVIOUS
  <2>1. CASE j < k
    BY <1>0, <1>1, <2>1
  <2>2. CASE j > k
    <3>1. j - 1 \in 1 .. Len(q) - 1 /\ From(j - 1) = j
      BY <1>0, <1>1, <2>2
    <3> QED BY Zenon, <3>1
  <2> QED BY <1>0, <1>1, <2>1, <2>2
<1> HIDE DEF From
<1>8. List(t)
  BY <1>0, <1>1, <1>2, <1>5, <1>6 DEF List, IsInjective
<1>9. ASSUME NEW x PROVE x \in Range(t) <=> x \in Range(q) \ {q[k]}
  <2>1. ASSUME x \in Range(t) PROVE x \in Range(q) \ {q[k]}
    BY <1>0, <1>2, <1>3, <1>4, <1>5, <2>1
  <2>2. ASSUME x \in Range(q) \ {q[k]} PROVE x \in Range(t)
    <3>1. PICK j \in 1 .. Len(q) : q[j] = x /\ j # k
      BY <1>3, <2>2
    <3>2. PICK i \in 1 .. Len(q) - 1 : From(i) = j
      BY <1>7, <3>1
    <3> QED BY <1>4, <1>5, <3>1, <3>2
  <2> QED BY <2>1, <2>2
<1> QED BY <1>8, <1>9

LEMMA RemoveHead ==
  ASSUME NEW q, List(q), q # <<>>
  PROVE  /\ Head(q) \in SlabId /\ Head(q) \in Range(q)
         /\ List(Tail(q))
         /\ Range(Tail(q)) = Range(q) \ {Head(q)}
         /\ Len(Tail(q)) = Len(q) - 1
<1>1. q \in Seq(SlabId) /\ Len(q) \in Nat \ {0} /\ DOMAIN q = 1 .. Len(q)
  BY LenProperties, EmptySeq DEF List
<1>2. /\ Tail(q) \in Seq(SlabId) /\ Len(Tail(q)) = Len(q) - 1
      /\ \A i \in 1 .. Len(q) - 1 : Tail(q)[i] = q[i + 1]
  BY <1>1, HeadTailProperties
<1>3. Head(q) = q[1] /\ 1 \in 1 .. Len(q)
  BY <1>1
<1>4. Without(q, 1, Tail(q))
  BY <1>1, <1>2 DEF Without
<1>5. List(Tail(q)) /\ Range(Tail(q)) = Range(q) \ {q[1]}
  BY Zenon, <1>4, Removed
<1>6. q[1] \in SlabId /\ q[1] \in Range(q)
  BY <1>1, <1>3, ElementOfSeq DEF Range
<1> QED BY <1>2, <1>3, <1>5, <1>6

LEMMA RemoveOne ==
  ASSUME NEW q, List(q), NEW s \in Range(q)
  PROVE  /\ List(LIST_REMOVE(q, s))
         /\ Range(LIST_REMOVE(q, s)) = Range(q) \ {s}
         /\ Len(LIST_REMOVE(q, s)) = Len(q) - 1
<1>1. q \in Seq(SlabId) /\ Len(q) \in Nat /\ DOMAIN q = 1 .. Len(q)
  BY LenProperties DEF List
<1>2. PICK k \in 1 .. Len(q) : q[k] = s
  BY <1>1 DEF Range
<1>3. \A i \in 1 .. Len(q) : q[i] = s <=> i = k
  BY <1>1, <1>2 DEF List, IsInjective
<1>4. (CHOOSE i \in DOMAIN q : q[i] = s) = k
  BY <1>1, <1>2, <1>3
<1> DEFINE a == SubSeq(q, 1, k - 1)
           b == SubSeq(q, k + 1, Len(q))
<1>5. a \in Seq(SlabId) /\ Len(a) = k - 1 /\ \A i \in 1 .. k - 1 : a[i] = q[i]
  <2>1. \A i \in 1 .. k - 1 : q[i] \in SlabId
    BY <1>1
  <2>2. /\ a \in Seq(SlabId) /\ Len(a) = IF 1 <= k - 1 THEN k - 1 - 1 + 1 ELSE 0
        /\ \A i \in 1 .. k - 1 - 1 + 1 : a[i] = q[1 + i - 1]
    BY <2>1, SubSeqProperties
  <2> HIDE DEF a
  <2> QED BY <2>2
<1>6. /\ b \in Seq(SlabId) /\ Len(b) = Len(q) - k
      /\ \A i \in 1 .. Len(q) - k : b[i] = q[k + i]
  <2>1. \A i \in k + 1 .. Len(q) : q[i] \in SlabId
    BY <1>1
  <2>2. \A i \in 1 .. Len(q) - (k + 1) + 1 : b[i] = q[k + 1 + i - 1]
    BY <1>1, <2>1, SubSeqProperties
  <2>3. b \in Seq(SlabId) /\ Len(b) = Len(q) - k
    <3>1. /\ b \in Seq(SlabId)
          /\ Len(b) = IF k + 1 <= Len(q) THEN Len(q) - (k + 1) + 1 ELSE 0
      BY <1>1, <2>1, SubSeqProperties
    <3> HIDE DEF b
    <3>2. Len(q) \in Nat
      BY <1>1
    <3> QED BY <3>1, <3>2
  <2> HIDE DEF b
  <2>4. ASSUME NEW i \in 1 .. Len(q) - k PROVE b[i] = q[k + i]
    <3>1. i \in 1 .. Len(q) - (k + 1) + 1 /\ k + 1 + i - 1 = k + i
      BY <1>1
    <3> QED BY Zenon, <2>2, <3>1
  <2> QED BY <2>2, <2>3, <2>4
<1> HIDE DEF a, b
<1>7. Without(q, k, a \o b) /\ Len(a \o b) = Len(q) - 1
  <2>1. /\ a \o b \in Seq(SlabId) /\ Len(a \o b) = Len(a) + Len(b)
        /\ \A i \in 1 .. Len(a) + Len(b) : (a \o b)[i] = IF i <= Len(a) THEN a[i] ELSE b[i - Len(a)]
    BY Zenon, <1>5, <1>6, ConcatProperties
  <2>2. ASSUME NEW i \in 1 .. Len(q) - 1
        PROVE  (a \o b)[i] = IF i < k THEN q[i] ELSE q[i + 1]
    <3>1. i \in 1 .. Len(a) + Len(b)
      BY <1>1, <1>5, <1>6
    <3>2. CASE i < k
      BY <1>1, <1>5, <2>1, <3>1, <3>2
    <3>3. CASE i >= k
      <4>1. (a \o b)[i] = b[i - (k - 1)] /\ i - (k - 1) \in 1 .. Len(q) - k
        BY <1>1, <1>5, <2>1, <3>1, <3>3
      <4>2. b[i - (k - 1)] = q[k + (i - (k - 1))]
        BY <1>6, <4>1
      <4>3. k + (i - (k - 1)) = i + 1 /\ ~(i < k)
        BY <3>3
      <4> QED BY Zenon, <4>1, <4>2, <4>3
    <3>4. i < k \/ i >= k
      OBVIOUS
    <3> QED BY Zenon, <3>2, <3>3, <3>4
  <2>3. Len(a \o b) = Len(q) - 1
    BY <1>1, <1>5, <1>6, <2>1
  <2> QED BY Zenon, <2>1, <2>2, <2>3 DEF Without
<1>8. LIST_REMOVE(q, s) = a \o b
  BY Zenon, <1>4 DEF LIST_REMOVE, a, b
<1> QED BY Zenon, <1>2, <1>7, <1>8, Removed

(* Lists that share no element have no repetition between them.            *)
LEMMA ConcatLists ==
  ASSUME NEW q, NEW t, List(q), List(t), Range(q) \cap Range(t) = {}
  PROVE  List(q \o t) /\ Range(q \o t) = Range(q) \cup Range(t)
<1>1. /\ q \in Seq(SlabId) /\ Len(q) \in Nat /\ DOMAIN q = 1 .. Len(q)
      /\ t \in Seq(SlabId) /\ Len(t) \in Nat /\ DOMAIN t = 1 .. Len(t)
  BY LenProperties DEF List
<1>2. /\ q \o t \in Seq(SlabId) /\ Len(q \o t) = Len(q) + Len(t)
      /\ \A i \in 1 .. Len(q) + Len(t) : (q \o t)[i] = IF i <= Len(q) THEN q[i] ELSE t[i - Len(q)]
  BY <1>1, ConcatProperties
<1>3. DOMAIN (q \o t) = 1 .. Len(q) + Len(t)
  BY <1>2, LenProperties
<1>4. \A i \in 1 .. Len(q), j \in 1 .. Len(t) : q[i] # t[j]
  BY <1>1 DEF Range
<1>5. ASSUME NEW i \in 1 .. Len(q) + Len(t), NEW j \in 1 .. Len(q) + Len(t),
             (q \o t)[i] = (q \o t)[j]
      PROVE  i = j
  <2>1. CASE i <= Len(q) /\ j <= Len(q)
    BY <1>1, <1>2, <1>5, <2>1 DEF List, IsInjective
  <2>2. CASE i > Len(q) /\ j > Len(q)
    <3>1. i - Len(q) \in 1 .. Len(t) /\ j - Len(q) \in 1 .. Len(t)
          /\ t[i - Len(q)] = t[j - Len(q)]
      BY <1>1, <1>2, <1>5, <2>2
    <3>2. i - Len(q) = j - Len(q)
      BY <1>1, <3>1 DEF List, IsInjective
    <3> QED BY <1>1, <3>2
  <2>3. CASE i <= Len(q) /\ j > Len(q)
    BY <1>1, <1>2, <1>4, <1>5, <2>3
  <2>4. CASE i > Len(q) /\ j <= Len(q)
    BY <1>1, <1>2, <1>4, <1>5, <2>4
  <2> QED BY <1>1, <2>1, <2>2, <2>3, <2>4
<1>6. Range(q \o t) = Range(q) \cup Range(t)
  BY <1>1, RangeConcatenation
<1> QED BY <1>2, <1>3, <1>5, <1>6 DEF List, IsInjective

-----------------------------------------------------------------------------
(* The inductive invariant.                                                *)

(* The objects of slab s that callers own.                                 *)
Used(s) == {o \in 1 .. Objs : <<s, o>> \in owned}

(* The slabs on their way to the empty list or from it.                    *)
Hand == {sh[c] : c \in CPU} \ {NoSlab}

(* The lists have no repetitions and the cache's counts are their lengths. *)
ListInv ==
  /\ List(emptyq) /\ List(freeq) /\ List(fullq)
  /\ cnt = [empty |-> Len(emptyq), free |-> Len(freeq), full |-> Len(fullq)]

(* A slab is in one place, which says how many of its objects are free.    *)
(* While it is mapped each object is free or in use.                       *)
PlaceInv(s) ==
  /\ s \in Range(emptyq) =>
       s \notin Range(freeq) /\ s \notin Range(fullq) /\ s \notin Hand /\ freecnt[s] = Objs
  /\ s \in Range(freeq) => s \notin Range(fullq) /\ s \notin Hand /\ freecnt[s] \in 1 .. Objs - 1
  /\ s \in Range(fullq) => s \notin Hand /\ freecnt[s] = 0
  /\ s \in Hand => freecnt[s] = Objs

Mapped(s) == s \in Range(emptyq) \/ s \in Range(freeq) \/ s \in Range(fullq) \/ s \in Hand

ObjectInv(s) ==
  /\ Used(s) \cap objq[s] = {} /\ Cardinality(objq[s]) = freecnt[s]
  /\ Mapped(s) => Used(s) \cup objq[s] = 1 .. Objs
  /\ ~Mapped(s) => Used(s) = {} /\ objq[s] = {}

(* A CPU has a slab in hand just while it adds or drops it, and alone.     *)
HandInv ==
  /\ \A c \in CPU : pc[c] \in {"add", "drop"} <=> sh[c] # NoSlab
  /\ \A c, d \in CPU : sh[c] = sh[d] /\ sh[c] # NoSlab => c = d

TryInv == \A c \in CPU : pc[c] \in {"look", "grow", "add"} => tries[c] <= 4

Inv ==
  /\ TypeOK /\ ListInv /\ HandInv /\ TryInv
  /\ \A s \in SlabId : PlaceInv(s) /\ ObjectInv(s)

-----------------------------------------------------------------------------
(* The objects of a slab are finitely many, and none is in use when as     *)
(* many are free as it has.                                                *)
LEMMA Objects ==
  ASSUME TypeOK, NEW s \in SlabId
  PROVE  /\ objq[s] \subseteq 1 .. Objs /\ freecnt[s] \in 0 .. Objs
         /\ IsFiniteSet(objq[s]) /\ Cardinality(objq[s]) \in 0 .. Objs
         /\ Cardinality(objq[s]) = Objs => objq[s] = 1 .. Objs
<1>1. objq[s] \subseteq 1 .. Objs /\ freecnt[s] \in 0 .. Objs
  BY DEF TypeOK
<1>2. Objs \in Int /\ Objs >= 1
  BY SlabConstants
<1>3. IsFiniteSet(1 .. Objs) /\ Cardinality(1 .. Objs) = Objs
  BY <1>2, FS_Interval
<1>4. /\ IsFiniteSet(objq[s]) /\ Cardinality(objq[s]) <= Cardinality(1 .. Objs)
      /\ Cardinality(1 .. Objs) = Cardinality(objq[s]) => 1 .. Objs = objq[s]
  <2>1. objq[s] \in SUBSET (1 .. Objs)
    BY <1>1
  <2> QED BY Zenon, <1>3, <2>1, FS_Subset
<1>5. Cardinality(objq[s]) \in Nat
  BY <1>4, FS_CardinalityType
<1> QED BY <1>1, <1>2, <1>3, <1>4, <1>5

DataType ==
  /\ objq \in [SlabId -> SUBSET (1 .. Objs)] /\ freecnt \in [SlabId -> 0 .. Objs]
  /\ owned \subseteq Object

(* Every object of slab s is free or in use.                               *)
Whole(s) ==
  /\ Used(s) \cap objq[s] = {} /\ Cardinality(objq[s]) = freecnt[s]
  /\ Used(s) \cup objq[s] = 1 .. Objs

(* A step leaves the objects of t alone.                                   *)
Untouched(t) == Used(t)' = Used(t) /\ objq'[t] = objq[t] /\ freecnt'[t] = freecnt[t]

Gives(s, o) ==
  /\ o \in objq[s] /\ objq' = [objq EXCEPT ![s] = @ \ {o}] /\ owned' = owned \cup {<<s, o>>}
  /\ freecnt' = [freecnt EXCEPT ![s] = @ - 1]

TakesBack(s, o) ==
  /\ o \in 1 .. Objs /\ <<s, o>> \in owned
  /\ objq' = [objq EXCEPT ![s] = @ \cup {o}] /\ owned' = owned \ {<<s, o>>}
  /\ freecnt' = [freecnt EXCEPT ![s] = freecnt[s] + 1]

(* Giving out an object of a mapped slab.                                  *)
LEMMA GiveObject ==
  ASSUME TypeOK, NEW s \in SlabId, NEW o, ObjectInv(s), Mapped(s), Gives(s, o)
  PROVE  /\ DataType' /\ Whole(s)'
         /\ freecnt[s] \in 1 .. Objs /\ freecnt'[s] = freecnt[s] - 1
         /\ \A t \in SlabId : t # s => Untouched(t)
<1> USE DEF Gives
<1>1. /\ objq \in [SlabId -> SUBSET (1 .. Objs)] /\ freecnt \in [SlabId -> 0 .. Objs]
      /\ owned \subseteq Object
  BY DEF TypeOK
<1>2. objq[s] \subseteq 1 .. Objs /\ IsFiniteSet(objq[s]) /\ Cardinality(objq[s]) \in 0 .. Objs
  BY Objects
<1>3. /\ Used(s) \cap objq[s] = {} /\ Cardinality(objq[s]) = freecnt[s]
      /\ Used(s) \cup objq[s] = 1 .. Objs
  BY DEF ObjectInv
<1>4. objq'[s] = objq[s] \ {o} /\ freecnt'[s] = freecnt[s] - 1
      /\ \A t \in SlabId : t # s => objq'[t] = objq[t] /\ freecnt'[t] = freecnt[t]
  BY <1>1
<1>5. Cardinality(objq[s] \ {o}) = Cardinality(objq[s]) - 1
  BY Zenon, <1>2, FS_RemoveElement
<1>6. Cardinality(objq[s] \ {o}) \in Nat
  BY Zenon, <1>2, FS_RemoveElement, FS_CardinalityType
<1>7. freecnt[s] \in 1 .. Objs /\ Cardinality(objq'[s]) = freecnt'[s]
  <2>1. Cardinality(objq'[s]) = freecnt[s] - 1 /\ freecnt[s] - 1 \in Nat
    BY Zenon, <1>3, <1>4, <1>5, <1>6
  <2>2. freecnt[s] \in 0 .. Objs
    BY <1>1
  <2> QED BY <1>4, <2>1, <2>2, SlabConstants
<1>8. Used(s)' = Used(s) \cup {o}
  BY <1>2 DEF Used
<1>9. \A t \in SlabId : t # s => Used(t)' = Used(t)
  BY DEF Used
<1>10. objq' \in [SlabId -> SUBSET (1 .. Objs)]
  BY <1>1, <1>2
<1>11. freecnt' \in [SlabId -> 0 .. Objs]
  BY <1>1, <1>7, SlabConstants
<1>12. owned' \subseteq Object
  BY <1>1, <1>2 DEF Object
<1>13. Used(s)' \cap objq'[s] = {} /\ Used(s)' \cup objq'[s] = 1 .. Objs
  BY <1>3, <1>4, <1>8
<1> QED BY Zenon, <1>4, <1>7, <1>9, <1>10, <1>11, <1>12, <1>13 DEF DataType, Whole, Untouched

(* Taking it back.                                                         *)
LEMMA TakeBack ==
  ASSUME TypeOK, NEW s \in SlabId, NEW o, ObjectInv(s), TakesBack(s, o)
  PROVE  /\ DataType' /\ Whole(s)'
         /\ freecnt[s] \in 0 .. Objs - 1 /\ freecnt'[s] = freecnt[s] + 1
         /\ \A t \in SlabId : t # s => Untouched(t)
<1> USE DEF TakesBack
<1>1. /\ objq \in [SlabId -> SUBSET (1 .. Objs)] /\ freecnt \in [SlabId -> 0 .. Objs]
      /\ owned \subseteq Object
  BY DEF TypeOK
<1>2. /\ objq[s] \subseteq 1 .. Objs /\ IsFiniteSet(objq[s]) /\ Cardinality(objq[s]) \in 0 .. Objs
      /\ Cardinality(objq[s]) = Objs => objq[s] = 1 .. Objs
  BY Objects
<1>3. o \in Used(s)
  BY DEF Used
<1>4. /\ Used(s) \cap objq[s] = {} /\ Cardinality(objq[s]) = freecnt[s]
      /\ Used(s) \cup objq[s] = 1 .. Objs
  BY <1>3 DEF ObjectInv
<1>5. o \notin objq[s]
  BY <1>3, <1>4
<1>6. /\ objq'[s] = objq[s] \cup {o} /\ freecnt'[s] = freecnt[s] + 1
      /\ \A t \in SlabId : t # s => objq'[t] = objq[t] /\ freecnt'[t] = freecnt[t]
  BY <1>1
<1>7. Cardinality(objq[s] \cup {o}) = Cardinality(objq[s]) + 1
  BY Zenon, <1>2, <1>5, FS_AddElement
<1>8. freecnt[s] \in 0 .. Objs - 1 /\ Cardinality(objq'[s]) = freecnt'[s]
  <2>1. Cardinality(objq[s]) # Objs
    BY <1>2, <1>5
  <2>2. freecnt[s] # Objs /\ Cardinality(objq'[s]) = freecnt[s] + 1
    BY Zenon, <1>4, <1>6, <1>7, <2>1
  <2>3. freecnt[s] \in 0 .. Objs
    BY <1>1
  <2> QED BY <1>6, <2>2, <2>3, SlabConstants
<1>9. Used(s)' = Used(s) \ {o}
  BY DEF Used
<1>10. \A t \in SlabId : t # s => Used(t)' = Used(t)
  BY DEF Used
<1>11. objq' \in [SlabId -> SUBSET (1 .. Objs)]
  BY <1>1, <1>2
<1>12. freecnt' \in [SlabId -> 0 .. Objs]
  BY <1>1, <1>8, SlabConstants
<1>13. owned' \subseteq Object
  BY <1>1 DEF Object
<1>14. Used(s)' \cap objq'[s] = {} /\ Used(s)' \cup objq'[s] = 1 .. Objs
  BY <1>3, <1>4, <1>6, <1>9
<1> QED BY Zenon, <1>6, <1>8, <1>10, <1>11, <1>12, <1>13, <1>14 DEF DataType, Whole, Untouched

-----------------------------------------------------------------------------
(* The lists and the objects: one lemma per locked section.                *)

CacheInv ==
  /\ DataType /\ ListInv /\ \A s \in SlabId : PlaceInv(s) /\ ObjectInv(s)

(* A step leaves t where it is.                                            *)
SamePlace(t) ==
  /\ t \in Range(emptyq') <=> t \in Range(emptyq)
  /\ t \in Range(freeq') <=> t \in Range(freeq)
  /\ t \in Range(fullq') <=> t \in Range(fullq)
  /\ t \in Hand' <=> t \in Hand

LEMMA Kept ==
  ASSUME NEW t \in SlabId, PlaceInv(t), ObjectInv(t), Untouched(t), SamePlace(t)
  PROVE  PlaceInv(t)' /\ ObjectInv(t)'
<1>1. PlaceInv(t)'
  BY Zenon DEF PlaceInv, Untouched, SamePlace
<1>2. Mapped(t)' <=> Mapped(t)
  BY Zenon DEF Mapped, SamePlace
<1>3. ObjectInv(t)'
  BY Zenon, <1>2 DEF ObjectInv, Untouched
<1> QED BY <1>1, <1>3

(* A slab whose objects are accounted for.                                 *)
LEMMA WholeSlab ==
  ASSUME NEW s \in SlabId, Whole(s)', Mapped(s)'
  PROVE  ObjectInv(s)'
BY Zenon DEF Whole, ObjectInv

(* The cache's counts as slabs change lists.                               *)
LEMMA Counts ==
  ASSUME NEW a, NEW b, NEW d, cnt = [empty |-> a, free |-> b, full |-> d]
  PROVE  /\ Move("free", "full") => cnt' = [empty |-> a, free |-> b - 1, full |-> d + 1]
         /\ Move("empty", "free") => cnt' = [empty |-> a - 1, free |-> b + 1, full |-> d]
         /\ Move("full", "free") => cnt' = [empty |-> a, free |-> b + 1, full |-> d - 1]
         /\ Move("free", "empty") => cnt' = [empty |-> a + 1, free |-> b - 1, full |-> d]
         /\ cnt' = [cnt EXCEPT !["empty"] = @ + 1] => cnt' = [empty |-> a + 1, free |-> b, full |-> d]
         /\ cnt' = [cnt EXCEPT !["empty"] = @ - 1] => cnt' = [empty |-> a - 1, free |-> b, full |-> d]
BY Zenon DEF Move

LEMMA PartialStep ==
  ASSUME Inv, NEW c \in CPU, alloc_partial(c)
  PROVE  CacheInv'
<1>1. List(emptyq) /\ List(freeq) /\ List(fullq) /\ freeq # <<>>
  BY DEF Inv, ListInv, alloc_partial
<1>s. Head(freeq) \in SlabId
  BY Zenon, <1>1, RemoveHead
<1> PICK s \in SlabId : s = Head(freeq)
  BY Zenon, <1>s
<1>2. /\ s \in SlabId /\ s \in Range(freeq) /\ List(Tail(freeq))
      /\ Range(Tail(freeq)) = Range(freeq) \ {s} /\ Len(Tail(freeq)) = Len(freeq) - 1
  BY Zenon, <1>1, RemoveHead
<1>3. /\ UNCHANGED <<emptyq, sh>>
      /\ \/ freecnt[s] = 1 /\ freeq' = Tail(freeq) /\ fullq' = <<s>> \o fullq /\ Move("free", "full")
         \/ freecnt[s] # 1 /\ UNCHANGED <<freeq, fullq, cnt>>
  BY Zenon DEF alloc_partial, Give, LastObject
<1>4. PICK o : Gives(s, o)
  BY Zenon DEF alloc_partial, Give, Gives
<1>5. TypeOK /\ \A t \in SlabId : PlaceInv(t) /\ ObjectInv(t)
  BY DEF Inv
<1>6. Mapped(s)
  BY <1>2 DEF Mapped
<1>7. /\ DataType' /\ Whole(s)'
      /\ freecnt[s] \in 1 .. Objs /\ freecnt'[s] = freecnt[s] - 1
      /\ \A t \in SlabId : t # s => Untouched(t)
  BY Zenon, <1>2, <1>4, <1>5, <1>6, GiveObject
<1>8. Hand' = Hand
  BY Zenon, <1>3 DEF Hand
<1>9. /\ s \notin Range(emptyq) /\ s \notin Range(fullq) /\ s \notin Hand
      /\ freecnt[s] \in 1 .. Objs - 1
  BY Zenon, <1>2, <1>5 DEF PlaceInv
<1>10. ListInv' /\ PlaceInv(s)' /\ Mapped(s)'
       /\ \A t \in SlabId : t # s => SamePlace(t)
  <2>1. CASE freecnt[s] = 1 /\ freeq' = Tail(freeq) /\ fullq' = <<s>> \o fullq /\ Move("free", "full")
    <3>1. /\ List(fullq') /\ Range(fullq') = Range(fullq) \cup {s} /\ Len(fullq') = Len(fullq) + 1
      BY Zenon, <1>1, <1>2, <1>9, <2>1, InsertHead
    <3>2. List(freeq') /\ Range(freeq') = Range(freeq) \ {s} /\ Len(freeq') = Len(freeq) - 1
      BY Zenon, <1>2, <2>1
    <3>3. cnt' = [empty |-> Len(emptyq'), free |-> Len(freeq'), full |-> Len(fullq')]
      <4>1. cnt = [empty |-> Len(emptyq), free |-> Len(freeq), full |-> Len(fullq)]
        BY Zenon DEF Inv, ListInv
      <4>2. cnt' = [empty |-> Len(emptyq), free |-> Len(freeq) - 1, full |-> Len(fullq) + 1]
        BY Zenon, <2>1, <4>1, Counts
      <4> QED BY Zenon, <1>3, <3>1, <3>2, <4>2
    <3>4. ListInv'
      BY Zenon, <1>1, <1>3, <3>1, <3>2, <3>3 DEF ListInv
    <3>5. freecnt'[s] = 0
      BY <1>7, <2>1
    <3>6. s \notin Range(emptyq') /\ s \notin Range(freeq') /\ s \in Range(fullq') /\ s \notin Hand'
      BY <1>3, <1>8, <1>9, <3>1, <3>2
    <3>7. PlaceInv(s)' /\ Mapped(s)'
      BY Zenon, <3>5, <3>6 DEF PlaceInv, Mapped
    <3>8. \A t \in SlabId : t # s => SamePlace(t)
      BY <1>3, <1>8, <3>1, <3>2 DEF SamePlace
    <3> QED BY <3>4, <3>7, <3>8
  <2>2. CASE freecnt[s] # 1 /\ UNCHANGED <<freeq, fullq, cnt>>
    <3>1. ListInv'
      BY Zenon, <1>3, <2>2 DEF Inv, ListInv
    <3>2. freecnt'[s] \in 1 .. Objs - 1
      BY <1>7, <1>9, <2>2, SlabConstants
    <3>3. s \notin Range(emptyq') /\ s \in Range(freeq') /\ s \notin Range(fullq') /\ s \notin Hand'
      BY <1>2, <1>3, <1>8, <1>9, <2>2
    <3>4. PlaceInv(s)' /\ Mapped(s)'
      BY Zenon, <3>2, <3>3 DEF PlaceInv, Mapped
    <3>5. \A t \in SlabId : t # s => SamePlace(t)
      BY <1>3, <1>8, <2>2 DEF SamePlace
    <3> QED BY <3>1, <3>4, <3>5
  <2> QED BY Zenon, <1>3, <2>1, <2>2
<1>11. ObjectInv(s)'
  BY Zenon, <1>2, <1>7, <1>10, WholeSlab
<1>12. ASSUME NEW t \in SlabId, t # s PROVE PlaceInv(t)' /\ ObjectInv(t)'
  BY Zenon, <1>5, <1>7, <1>10, <1>12, Kept
<1> QED BY Zenon, <1>7, <1>10, <1>11, <1>12 DEF CacheInv

LEMMA EmptyStep ==
  ASSUME Inv, NEW c \in CPU, alloc_empty(c)
  PROVE  CacheInv'
<1>1. List(emptyq) /\ List(freeq) /\ List(fullq) /\ emptyq # <<>> /\ freeq = <<>>
  BY DEF Inv, ListInv, alloc_empty
<1>s. Head(emptyq) \in SlabId
  BY Zenon, <1>1, RemoveHead
<1> PICK s \in SlabId : s = Head(emptyq)
  BY Zenon, <1>s
<1>2. /\ s \in SlabId /\ s \in Range(emptyq) /\ List(Tail(emptyq))
      /\ Range(Tail(emptyq)) = Range(emptyq) \ {s} /\ Len(Tail(emptyq)) = Len(emptyq) - 1
  BY Zenon, <1>1, RemoveHead
<1>3. /\ UNCHANGED <<fullq, sh>>
      /\ emptyq' = Tail(emptyq) /\ freeq' = <<s>> /\ Move("empty", "free")
  BY Zenon DEF alloc_empty, Give
<1>4. PICK o : Gives(s, o)
  BY Zenon DEF alloc_empty, Give, Gives
<1>5. TypeOK /\ \A t \in SlabId : PlaceInv(t) /\ ObjectInv(t)
  BY DEF Inv
<1>6. Mapped(s)
  BY <1>2 DEF Mapped
<1>7. /\ DataType' /\ Whole(s)'
      /\ freecnt[s] \in 1 .. Objs /\ freecnt'[s] = freecnt[s] - 1
      /\ \A t \in SlabId : t # s => Untouched(t)
  BY Zenon, <1>2, <1>4, <1>5, <1>6, GiveObject
<1>8. Hand' = Hand
  BY Zenon, <1>3 DEF Hand
<1>9. s \notin Range(freeq) /\ s \notin Range(fullq) /\ s \notin Hand /\ freecnt[s] = Objs
  BY Zenon, <1>2, <1>5 DEF PlaceInv
<1>10. /\ List(freeq') /\ Range(freeq') = Range(freeq) \cup {s} /\ Len(freeq') = Len(freeq) + 1
  <2>1. freeq' = <<s>> \o freeq
    BY <1>1, <1>3
  <2> QED BY Zenon, <1>1, <1>2, <1>9, <2>1, InsertHead
<1>11. cnt' = [empty |-> Len(emptyq'), free |-> Len(freeq'), full |-> Len(fullq')]
  <2>1. cnt = [empty |-> Len(emptyq), free |-> Len(freeq), full |-> Len(fullq)]
    BY Zenon DEF Inv, ListInv
  <2>2. cnt' = [empty |-> Len(emptyq) - 1, free |-> Len(freeq) + 1, full |-> Len(fullq)]
    BY Zenon, <1>3, <2>1, Counts
  <2> QED BY Zenon, <1>2, <1>3, <1>10, <2>2
<1>12. ListInv'
  BY Zenon, <1>1, <1>2, <1>3, <1>10, <1>11 DEF ListInv
<1>13. freecnt'[s] \in 1 .. Objs - 1
  BY <1>7, <1>9, SlabConstants
<1>14. s \notin Range(emptyq') /\ s \in Range(freeq') /\ s \notin Range(fullq') /\ s \notin Hand'
  BY <1>2, <1>3, <1>8, <1>9, <1>10
<1>15. PlaceInv(s)' /\ Mapped(s)'
  BY Zenon, <1>13, <1>14 DEF PlaceInv, Mapped
<1>16. ObjectInv(s)'
  BY Zenon, <1>2, <1>7, <1>15, WholeSlab
<1>17. ASSUME NEW t \in SlabId, t # s PROVE PlaceInv(t)' /\ ObjectInv(t)'
  <2>1. SamePlace(t)
    BY <1>2, <1>3, <1>8, <1>10, <1>17 DEF SamePlace
  <2> QED BY Zenon, <1>5, <1>7, <1>17, <2>1, Kept
<1> QED BY Zenon, <1>7, <1>12, <1>15, <1>16, <1>17 DEF CacheInv

LEMMA FreeStep ==
  ASSUME Inv, NEW c \in CPU, NEW p \in owned, slab_free(c, p)
  PROVE  CacheInv'
<1>1. List(emptyq) /\ List(freeq) /\ List(fullq)
      /\ cnt = [empty |-> Len(emptyq), free |-> Len(freeq), full |-> Len(fullq)]
  BY Zenon DEF Inv, ListInv
<1>2. TypeOK /\ \A t \in SlabId : PlaceInv(t) /\ ObjectInv(t)
  BY DEF Inv
<1>3. p \in SlabId \X (1 .. Objs)
  BY DEF Inv, TypeOK, Object
<1>4. PICK s \in SlabId, o \in 1 .. Objs : p = <<s, o>>
  BY <1>3
<1>5. p[1] = s /\ p[2] = o
  BY <1>4
<1>6. TakesBack(s, o)
  BY Zenon, <1>4, <1>5 DEF slab_free, TakesBack
<1>7. /\ DataType' /\ Whole(s)'
      /\ freecnt[s] \in 0 .. Objs - 1 /\ freecnt'[s] = freecnt[s] + 1
      /\ \A t \in SlabId : t # s => Untouched(t)
  BY Zenon, <1>2, <1>6, TakeBack
<1>8. /\ UNCHANGED sh
      /\ \/ /\ freecnt[s] + 1 = 1 /\ fullq' = LIST_REMOVE(fullq, s) /\ freeq' = <<s>> \o freeq
            /\ Move("full", "free") /\ UNCHANGED emptyq
         \/ /\ freecnt[s] + 1 # 1 /\ freecnt[s] + 1 = Objs
            /\ freeq' = LIST_REMOVE(freeq, s) /\ emptyq' = <<s>> \o emptyq
            /\ Move("free", "empty") /\ UNCHANGED fullq
         \/ freecnt[s] + 1 # 1 /\ freecnt[s] + 1 # Objs /\ UNCHANGED <<emptyq, freeq, fullq, cnt>>
  BY Zenon, <1>5 DEF slab_free, AllFree, queueVars
<1>9. Hand' = Hand
  BY Zenon, <1>8 DEF Hand
<1>10. Mapped(s)
  <2>1. o \in Used(s)
    BY <1>4 DEF Used
  <2> QED BY <1>2, <2>1 DEF ObjectInv
<1>11. s \in Range(freeq) \/ s \in Range(fullq)
  <2>1. freecnt[s] # Objs
    BY <1>7, SlabConstants
  <2> QED BY Zenon, <1>2, <1>10, <2>1 DEF PlaceInv, Mapped
<1>12. /\ s \notin Range(emptyq) /\ s \notin Hand
       /\ s \in Range(freeq) => s \notin Range(fullq) /\ freecnt[s] \in 1 .. Objs - 1
       /\ s \in Range(fullq) => s \notin Range(freeq) /\ freecnt[s] = 0
  BY Zenon, <1>2, <1>11 DEF PlaceInv
<1> DEFINE Done == /\ ListInv' /\ PlaceInv(s)' /\ Mapped(s)'
                   /\ \A t \in SlabId : t # s => SamePlace(t)
<1>13. ASSUME freecnt[s] + 1 = 1, fullq' = LIST_REMOVE(fullq, s), freeq' = <<s>> \o freeq,
              Move("full", "free"), emptyq' = emptyq
       PROVE  Done
  <2>1. s \in Range(fullq) /\ s \notin Range(freeq)
    BY <1>7, <1>11, <1>12, <1>13
  <2>2. List(fullq') /\ Range(fullq') = Range(fullq) \ {s} /\ Len(fullq') = Len(fullq) - 1
    BY Zenon, <1>1, <1>13, <2>1, RemoveOne
  <2>3. List(freeq') /\ Range(freeq') = Range(freeq) \cup {s} /\ Len(freeq') = Len(freeq) + 1
    BY Zenon, <1>1, <1>13, <2>1, InsertHead
  <2>4. cnt' = [empty |-> Len(emptyq), free |-> Len(freeq) + 1, full |-> Len(fullq) - 1]
    BY Zenon, <1>1, <1>13, Counts
  <2>5. ListInv'
    BY Zenon, <1>1, <1>13, <2>2, <2>3, <2>4 DEF ListInv
  <2>6. freecnt'[s] \in 1 .. Objs - 1
    BY <1>7, <1>13, SlabConstants
  <2>7. s \notin Range(emptyq') /\ s \in Range(freeq') /\ s \notin Range(fullq') /\ s \notin Hand'
    BY <1>9, <1>12, <1>13, <2>2, <2>3
  <2>8. PlaceInv(s)' /\ Mapped(s)'
    BY Zenon, <2>6, <2>7 DEF PlaceInv, Mapped
  <2>9. \A t \in SlabId : t # s => SamePlace(t)
    BY <1>9, <1>13, <2>2, <2>3 DEF SamePlace
  <2> QED BY <2>5, <2>8, <2>9
<1>14. ASSUME freecnt[s] + 1 # 1, freecnt[s] + 1 = Objs, freeq' = LIST_REMOVE(freeq, s),
              emptyq' = <<s>> \o emptyq, Move("free", "empty"), fullq' = fullq
       PROVE  Done
  <2>1. s \in Range(freeq) /\ s \notin Range(fullq) /\ s \notin Range(emptyq)
    BY <1>7, <1>11, <1>12, <1>14
  <2>2. List(freeq') /\ Range(freeq') = Range(freeq) \ {s} /\ Len(freeq') = Len(freeq) - 1
    BY Zenon, <1>1, <1>14, <2>1, RemoveOne
  <2>3. List(emptyq') /\ Range(emptyq') = Range(emptyq) \cup {s} /\ Len(emptyq') = Len(emptyq) + 1
    BY Zenon, <1>1, <1>14, <2>1, InsertHead
  <2>4. cnt' = [empty |-> Len(emptyq) + 1, free |-> Len(freeq) - 1, full |-> Len(fullq)]
    BY Zenon, <1>1, <1>14, Counts
  <2>5. ListInv'
    BY Zenon, <1>1, <1>14, <2>2, <2>3, <2>4 DEF ListInv
  <2>6. freecnt'[s] = Objs
    BY <1>7, <1>14
  <2>7. s \in Range(emptyq') /\ s \notin Range(freeq') /\ s \notin Range(fullq') /\ s \notin Hand'
    BY <1>9, <1>12, <1>14, <2>1, <2>2, <2>3
  <2>8. PlaceInv(s)' /\ Mapped(s)'
    BY Zenon, <2>6, <2>7 DEF PlaceInv, Mapped
  <2>9. \A t \in SlabId : t # s => SamePlace(t)
    BY <1>9, <1>14, <2>2, <2>3 DEF SamePlace
  <2> QED BY <2>5, <2>8, <2>9
<1>15. ASSUME freecnt[s] + 1 # 1, freecnt[s] + 1 # Objs, UNCHANGED <<emptyq, freeq, fullq, cnt>>
       PROVE  Done
  <2>1. emptyq' = emptyq /\ freeq' = freeq /\ fullq' = fullq /\ cnt' = cnt
    BY <1>15
  <2>2. ListInv'
    BY Zenon, <1>1, <2>1 DEF ListInv
  <2>3. freecnt'[s] \in 1 .. Objs - 1 /\ s \in Range(freeq) /\ s \notin Range(fullq)
    BY <1>7, <1>11, <1>12, <1>15, SlabConstants
  <2>4. s \notin Range(emptyq') /\ s \in Range(freeq') /\ s \notin Range(fullq') /\ s \notin Hand'
    BY Zenon, <1>9, <1>12, <2>1, <2>3
  <2>5. PlaceInv(s)' /\ Mapped(s)'
    BY Zenon, <2>3, <2>4 DEF PlaceInv, Mapped
  <2>6. \A t \in SlabId : t # s => SamePlace(t)
    BY <1>9, <2>1 DEF SamePlace
  <2> QED BY <2>2, <2>5, <2>6
<1>16. Done
  BY Zenon, <1>8, <1>13, <1>14, <1>15
<1>17. ObjectInv(s)'
  BY Zenon, <1>7, <1>16, WholeSlab
<1>18. ASSUME NEW t \in SlabId, t # s PROVE PlaceInv(t)' /\ ObjectInv(t)'
  BY Zenon, <1>2, <1>7, <1>16, <1>18, Kept
<1> QED BY Zenon, <1>7, <1>16, <1>17, <1>18 DEF CacheInv

-----------------------------------------------------------------------------
(* Slabs in hand.                                                          *)

LEMMA Takes ==
  ASSUME TypeOK, NEW c \in CPU, NEW s \in SlabId, sh[c] = NoSlab, sh' = [sh EXCEPT ![c] = s]
  PROVE  Hand' = Hand \cup {s}
<1>1. sh \in [CPU -> SlabId \cup {NoSlab}] /\ s # NoSlab
  BY SlabConstants DEF TypeOK
<1>2. sh'[c] = s /\ \A d \in CPU : d # c => sh'[d] = sh[d]
  BY <1>1
<1>3. ASSUME NEW x PROVE x \in Hand' <=> x \in Hand \cup {s}
  <2>1. x \in Hand' <=> x # NoSlab /\ \E d \in CPU : sh'[d] = x
    BY DEF Hand
  <2>2. x \in Hand <=> x # NoSlab /\ \E d \in CPU : sh[d] = x
    BY DEF Hand
  <2> QED BY <1>1, <1>2, <2>1, <2>2
<1> QED BY <1>3

LEMMA Puts ==
  ASSUME TypeOK, HandInv, NEW c \in CPU, NEW s \in SlabId, sh[c] = s, sh' = [sh EXCEPT ![c] = NoSlab]
  PROVE  s \in Hand /\ Hand' = Hand \ {s}
<1>1. sh \in [CPU -> SlabId \cup {NoSlab}] /\ s # NoSlab
  BY SlabConstants DEF TypeOK
<1>2. sh'[c] = NoSlab /\ \A d \in CPU : d # c => sh'[d] = sh[d]
  BY <1>1
<1>3. \A d \in CPU : sh[d] = s => d = c
  BY <1>1 DEF HandInv
<1>4. s \in Hand
  BY <1>1 DEF Hand
<1>5. ASSUME NEW x PROVE x \in Hand' <=> x \in Hand \ {s}
  <2>1. x \in Hand' <=> x # NoSlab /\ \E d \in CPU : sh'[d] = x
    BY DEF Hand
  <2>2. x \in Hand <=> x # NoSlab /\ \E d \in CPU : sh[d] = x
    BY DEF Hand
  <2> QED BY <1>2, <1>3, <2>1, <2>2
<1> QED BY <1>4, <1>5

(* A slab that just stays mapped keeps its objects.                        *)
LEMMA StillWhole ==
  ASSUME NEW s \in SlabId, ObjectInv(s), Mapped(s), Mapped(s)', Untouched(s)
  PROVE  ObjectInv(s)'
BY Zenon DEF ObjectInv, Untouched

(* Steps that change neither objects nor callers.                          *)
LEMMA SameObjects ==
  ASSUME UNCHANGED <<objq, freecnt, owned>>, DataType
  PROVE  DataType' /\ \A t \in SlabId : Untouched(t)
BY DEF DataType, Untouched, Used

LEMMA GrowAllocStep ==
  ASSUME Inv, NEW c \in CPU, grow_alloc(c)
  PROVE  CacheInv'
<1>1. TypeOK /\ HandInv /\ ListInv /\ \A t \in SlabId : PlaceInv(t) /\ ObjectInv(t)
  BY DEF Inv
<1>2. emptyq' = emptyq /\ freeq' = freeq /\ fullq' = fullq /\ cnt' = cnt /\ owned' = owned
  BY DEF grow_alloc, queueVars
<1>3. ListInv'
  BY Zenon, <1>1, <1>2 DEF ListInv
<1>4. DataType
  BY <1>1 DEF TypeOK, DataType
<1>5. ASSUME NEW s \in SlabId \ Live, sh' = [sh EXCEPT ![c] = s],
             objq' = [objq EXCEPT ![s] = 1 .. Objs], freecnt' = [freecnt EXCEPT ![s] = Objs]
      PROVE  CacheInv'
  <2>1. sh[c] = NoSlab
    BY <1>1 DEF grow_alloc, At, HandInv
  <2>2. Hand' = Hand \cup {s}
    BY Zenon, <1>1, <1>5, <2>1, Takes
  <2>3. s \notin Range(emptyq) /\ s \notin Range(freeq) /\ s \notin Range(fullq) /\ s \notin Hand
    BY Zenon, <1>5 DEF Live, Hand
  <2>4. Used(s) = {}
    BY Zenon, <1>1, <2>3 DEF ObjectInv, Mapped
  <2>5. /\ objq'[s] = 1 .. Objs /\ freecnt'[s] = Objs
        /\ \A t \in SlabId : t # s => objq'[t] = objq[t] /\ freecnt'[t] = freecnt[t]
    BY <1>4, <1>5 DEF DataType
  <2>6. \A t \in SlabId : Used(t)' = Used(t)
    BY Zenon, <1>2 DEF Used
  <2>7. Cardinality(1 .. Objs) = Objs
    <3>1. Objs \in Int /\ 1 \in Int /\ ~(1 > Objs) /\ Objs - 1 + 1 = Objs
      BY SlabConstants
    <3> QED BY Zenon, <3>1, FS_Interval
  <2>8. Whole(s)'
    <3>1. Used(s)' = {}
      BY Zenon, <2>4, <2>6
    <3>2. Cardinality(objq'[s]) = freecnt'[s]
      BY Zenon, <2>5, <2>7
    <3> QED BY <2>5, <3>1, <3>2 DEF Whole
  <2>9. DataType'
    BY <1>2, <1>4, <1>5, SlabConstants DEF DataType
  <2>10. s \notin Range(emptyq') /\ s \notin Range(freeq') /\ s \notin Range(fullq') /\ s \in Hand'
    BY <1>2, <2>2, <2>3
  <2>11. PlaceInv(s)' /\ Mapped(s)'
    BY Zenon, <2>5, <2>10 DEF PlaceInv, Mapped
  <2>12. ObjectInv(s)'
    BY Zenon, <2>8, <2>11, WholeSlab
  <2>13. ASSUME NEW t \in SlabId, t # s PROVE PlaceInv(t)' /\ ObjectInv(t)'
    <3>1. SamePlace(t)
      BY <1>2, <2>2, <2>13 DEF SamePlace
    <3>2. Untouched(t)
      BY Zenon, <2>5, <2>6, <2>13 DEF Untouched
    <3> QED BY Zenon, <1>1, <3>1, <3>2, Kept
  <2> QED BY Zenon, <1>3, <2>9, <2>11, <2>12, <2>13 DEF CacheInv
<1>6. ASSUME sh' = sh, objq' = objq, freecnt' = freecnt
      PROVE  CacheInv'
  <2>1. DataType' /\ \A t \in SlabId : Untouched(t)
    BY <1>2, <1>4, <1>6, SameObjects
  <2>2. Hand' = Hand
    BY Zenon, <1>6 DEF Hand
  <2>3. \A t \in SlabId : SamePlace(t)
    BY Zenon, <1>2, <2>2 DEF SamePlace
  <2>4. \A t \in SlabId : PlaceInv(t)' /\ ObjectInv(t)'
    BY Zenon, <1>1, <2>1, <2>3, Kept
  <2> QED BY Zenon, <1>3, <2>1, <2>4 DEF CacheInv
<1> QED BY Zenon, <1>5, <1>6 DEF grow_alloc

LEMMA GrowAddStep ==
  ASSUME Inv, NEW c \in CPU, grow_add(c)
  PROVE  CacheInv'
<1>1. /\ TypeOK /\ HandInv /\ List(emptyq) /\ List(freeq) /\ List(fullq)
      /\ cnt = [empty |-> Len(emptyq), free |-> Len(freeq), full |-> Len(fullq)]
      /\ \A t \in SlabId : PlaceInv(t) /\ ObjectInv(t)
  BY Zenon DEF Inv, ListInv
<1>2. sh[c] \in SlabId
  BY <1>1 DEF grow_add, At, HandInv, TypeOK
<1> PICK s \in SlabId : s = sh[c]
  BY Zenon, <1>2
<1>3. /\ emptyq' = <<s>> \o emptyq /\ cnt' = [cnt EXCEPT !["empty"] = @ + 1]
      /\ sh' = [sh EXCEPT ![c] = NoSlab] /\ UNCHANGED <<objq, freecnt, owned>>
      /\ freeq' = freeq /\ fullq' = fullq
  BY Zenon DEF grow_add
<1>4. DataType
  BY <1>1 DEF TypeOK, DataType
<1>5. DataType' /\ \A t \in SlabId : Untouched(t)
  BY <1>3, <1>4, SameObjects
<1>6. s \in Hand /\ Hand' = Hand \ {s}
  BY Zenon, <1>1, <1>3, Puts
<1>7. /\ s \notin Range(emptyq) /\ s \notin Range(freeq) /\ s \notin Range(fullq)
      /\ freecnt[s] = Objs
  BY Zenon, <1>1, <1>6 DEF PlaceInv
<1>8. List(emptyq') /\ Range(emptyq') = Range(emptyq) \cup {s} /\ Len(emptyq') = Len(emptyq) + 1
  BY Zenon, <1>1, <1>3, <1>7, InsertHead
<1>9. cnt' = [empty |-> Len(emptyq) + 1, free |-> Len(freeq), full |-> Len(fullq)]
  BY Zenon, <1>1, <1>3, Counts
<1>10. ListInv'
  BY Zenon, <1>1, <1>3, <1>8, <1>9 DEF ListInv
<1>11. /\ s \in Range(emptyq') /\ s \notin Range(freeq') /\ s \notin Range(fullq') /\ s \notin Hand'
       /\ freecnt'[s] = Objs
  BY <1>3, <1>6, <1>7, <1>8
<1>12. PlaceInv(s)' /\ Mapped(s)' /\ Mapped(s)
  BY Zenon, <1>6, <1>11 DEF PlaceInv, Mapped
<1>13. ObjectInv(s)'
  BY Zenon, <1>1, <1>5, <1>12, StillWhole
<1>14. ASSUME NEW t \in SlabId, t # s PROVE PlaceInv(t)' /\ ObjectInv(t)'
  <2>1. SamePlace(t)
    BY <1>3, <1>6, <1>8, <1>14 DEF SamePlace
  <2> QED BY Zenon, <1>1, <1>5, <2>1, Kept
<1> QED BY Zenon, <1>5, <1>10, <1>12, <1>13, <1>14 DEF CacheInv

(* Steps that leave the lists and the slabs in hand alone, too.            *)
LEMMA QuietStep ==
  ASSUME Inv, UNCHANGED <<emptyq, freeq, fullq, cnt, objq, freecnt, owned, sh>>
  PROVE  CacheInv'
<1>1. TypeOK /\ ListInv /\ \A t \in SlabId : PlaceInv(t) /\ ObjectInv(t)
  BY DEF Inv
<1>2. DataType
  BY <1>1 DEF TypeOK, DataType
<1>3. /\ emptyq' = emptyq /\ freeq' = freeq /\ fullq' = fullq /\ cnt' = cnt /\ sh' = sh
      /\ UNCHANGED <<objq, freecnt, owned>>
  OBVIOUS
<1>4. DataType' /\ \A t \in SlabId : Untouched(t)
  BY <1>2, <1>3, SameObjects
<1>5. Hand' = Hand
  BY Zenon, <1>3 DEF Hand
<1>6. \A t \in SlabId : SamePlace(t)
  BY Zenon, <1>3, <1>5 DEF SamePlace
<1>7. \A t \in SlabId : PlaceInv(t)' /\ ObjectInv(t)'
  BY Zenon, <1>1, <1>4, <1>6, Kept
<1>8. ListInv'
  BY Zenon, <1>1, <1>3 DEF ListInv
<1> QED BY Zenon, <1>4, <1>7, <1>8 DEF CacheInv

LEMMA ShrinkTakeStep ==
  ASSUME Inv, NEW c \in CPU, shrink_take(c)
  PROVE  CacheInv'
<1>1. /\ TypeOK /\ HandInv /\ List(emptyq) /\ List(freeq) /\ List(fullq)
      /\ cnt = [empty |-> Len(emptyq), free |-> Len(freeq), full |-> Len(fullq)]
      /\ \A t \in SlabId : PlaceInv(t) /\ ObjectInv(t)
  BY Zenon DEF Inv, ListInv
<1>2. freeq' = freeq /\ fullq' = fullq /\ UNCHANGED <<objq, freecnt, owned>>
  BY DEF shrink_take
<1>3. ASSUME emptyq # <<>>, sh' = [sh EXCEPT ![c] = Head(emptyq)], emptyq' = Tail(emptyq),
             cnt' = [cnt EXCEPT !["empty"] = @ - 1]
      PROVE  CacheInv'
  <2>1. Head(emptyq) \in SlabId
    BY Zenon, <1>1, <1>3, RemoveHead
  <2> PICK s \in SlabId : s = Head(emptyq)
    BY Zenon, <2>1
  <2>2. /\ s \in Range(emptyq) /\ List(emptyq') /\ Range(emptyq') = Range(emptyq) \ {s}
        /\ Len(emptyq') = Len(emptyq) - 1
    BY Zenon, <1>1, <1>3, RemoveHead
  <2>3. sh[c] = NoSlab
    BY <1>1 DEF shrink_take, At, HandInv
  <2>4. Hand' = Hand \cup {s}
    BY Zenon, <1>1, <1>3, <2>3, Takes
  <2>5. DataType' /\ \A t \in SlabId : Untouched(t)
    <3>1. DataType
      BY <1>1 DEF TypeOK, DataType
    <3> QED BY <1>2, <3>1, SameObjects
  <2>6. s \notin Range(freeq) /\ s \notin Range(fullq) /\ freecnt[s] = Objs
    BY Zenon, <1>1, <2>2 DEF PlaceInv
  <2>7. cnt' = [empty |-> Len(emptyq) - 1, free |-> Len(freeq), full |-> Len(fullq)]
    BY Zenon, <1>1, <1>3, Counts
  <2>8. ListInv'
    BY Zenon, <1>1, <1>2, <2>2, <2>7 DEF ListInv
  <2>9. /\ s \notin Range(emptyq') /\ s \notin Range(freeq') /\ s \notin Range(fullq')
        /\ s \in Hand' /\ freecnt'[s] = Objs
    BY <1>2, <2>2, <2>4, <2>6
  <2>10. PlaceInv(s)' /\ Mapped(s)' /\ Mapped(s)
    BY Zenon, <2>2, <2>9 DEF PlaceInv, Mapped
  <2>11. ObjectInv(s)'
    BY Zenon, <1>1, <2>5, <2>10, StillWhole
  <2>12. ASSUME NEW t \in SlabId, t # s PROVE PlaceInv(t)' /\ ObjectInv(t)'
    <3>1. SamePlace(t)
      BY <1>2, <2>2, <2>4, <2>12 DEF SamePlace
    <3> QED BY Zenon, <1>1, <2>5, <3>1, Kept
  <2> QED BY Zenon, <2>5, <2>8, <2>10, <2>11, <2>12 DEF CacheInv
<1>4. ASSUME UNCHANGED <<sh, emptyq, cnt>> PROVE CacheInv'
  BY <1>2, <1>4, QuietStep
<1> QED BY Zenon, <1>3, <1>4 DEF shrink_take

LEMMA ShrinkDropStep ==
  ASSUME Inv, NEW c \in CPU, shrink_drop(c)
  PROVE  CacheInv'
<1>1. TypeOK /\ HandInv /\ ListInv /\ \A t \in SlabId : PlaceInv(t) /\ ObjectInv(t)
  BY DEF Inv
<1>2. sh[c] \in SlabId
  BY <1>1 DEF shrink_drop, At, HandInv, TypeOK
<1> PICK s \in SlabId : s = sh[c]
  BY Zenon, <1>2
<1>3. /\ objq' = [objq EXCEPT ![s] = {}] /\ freecnt' = [freecnt EXCEPT ![s] = 0]
      /\ sh' = [sh EXCEPT ![c] = NoSlab]
  BY Zenon DEF shrink_drop
<1>4. emptyq' = emptyq /\ freeq' = freeq /\ fullq' = fullq /\ cnt' = cnt /\ owned' = owned
  BY DEF shrink_drop, queueVars
<1>5. DataType
  BY <1>1 DEF TypeOK, DataType
<1>6. s \in Hand /\ Hand' = Hand \ {s}
  BY Zenon, <1>1, <1>3, Puts
<1>7. /\ s \notin Range(emptyq) /\ s \notin Range(freeq) /\ s \notin Range(fullq)
      /\ freecnt[s] = Objs
  BY Zenon, <1>1, <1>6 DEF PlaceInv
<1>8. Used(s) = {}
  <2>1. Mapped(s)
    BY Zenon, <1>6 DEF Mapped
  <2>2. /\ Used(s) \cap objq[s] = {} /\ Cardinality(objq[s]) = freecnt[s]
        /\ Used(s) \cup objq[s] = 1 .. Objs
    BY Zenon, <1>1, <2>1 DEF ObjectInv
  <2>3. objq[s] = 1 .. Objs
    BY Zenon, <1>1, <1>7, <2>2, Objects
  <2> QED BY <2>2, <2>3
<1>9. /\ objq'[s] = {} /\ freecnt'[s] = 0
      /\ \A t \in SlabId : t # s => objq'[t] = objq[t] /\ freecnt'[t] = freecnt[t]
  BY <1>3, <1>5 DEF DataType
<1>10. \A t \in SlabId : Used(t)' = Used(t)
  BY Zenon, <1>4 DEF Used
<1>11. DataType'
  BY <1>3, <1>4, <1>5, SlabConstants DEF DataType
<1>12. s \notin Range(emptyq') /\ s \notin Range(freeq') /\ s \notin Range(fullq') /\ s \notin Hand'
  BY <1>4, <1>6, <1>7
<1>13. PlaceInv(s)' /\ ~Mapped(s)'
  BY Zenon, <1>12 DEF PlaceInv, Mapped
<1>14. ObjectInv(s)'
  <2>1. Used(s)' = {} /\ objq'[s] = {}
    BY Zenon, <1>8, <1>9, <1>10
  <2>2. Cardinality(objq'[s]) = freecnt'[s]
    BY Zenon, <1>9, FS_EmptySet
  <2>3. Used(s)' \cap objq'[s] = {}
    BY <2>1
  <2> QED BY Zenon, <1>13, <2>1, <2>2, <2>3 DEF ObjectInv
<1>15. ASSUME NEW t \in SlabId, t # s PROVE PlaceInv(t)' /\ ObjectInv(t)'
  <2>1. SamePlace(t)
    BY <1>4, <1>6, <1>15 DEF SamePlace
  <2>2. Untouched(t)
    BY Zenon, <1>9, <1>10, <1>15 DEF Untouched
  <2> QED BY Zenon, <1>1, <2>1, <2>2, Kept
<1>16. ListInv'
  BY Zenon, <1>1, <1>4 DEF ListInv
<1> QED BY Zenon, <1>11, <1>13, <1>14, <1>15, <1>16 DEF CacheInv

(* A new cache.                                                            *)
LEMMA EmptyCache ==
  ASSUME Init PROVE CacheInv
<1>e. /\ emptyq = <<>> /\ freeq = <<>> /\ fullq = <<>>
      /\ cnt = [empty |-> 0, free |-> 0, full |-> 0]
      /\ objq = [s \in SlabId |-> {}] /\ freecnt = [s \in SlabId |-> 0] /\ owned = {}
  BY DEF Init
<1>h. Hand = {}
  BY DEF Init, Hand
<1>1. List(<<>>) /\ Range(<<>>) = {} /\ Len(<<>>) = 0
  BY EmptySeq DEF List, Range, IsInjective
<1>2. ListInv
  BY Zenon, <1>1, <1>e DEF ListInv
<1>3. DataType
  BY <1>e, SlabConstants DEF DataType
<1>4. ASSUME NEW s \in SlabId PROVE PlaceInv(s) /\ ObjectInv(s)
  <2>1. s \notin Range(emptyq) /\ s \notin Range(freeq) /\ s \notin Range(fullq) /\ s \notin Hand
    BY Zenon, <1>h, <1>1, <1>e
  <2>2. objq[s] = {} /\ freecnt[s] = 0 /\ Used(s) = {}
    BY <1>e DEF Used
  <2>3. Cardinality(objq[s]) = freecnt[s]
    BY Zenon, <2>2, FS_EmptySet
  <2>4. Used(s) \cap objq[s] = {}
    BY <2>2
  <2> QED BY Zenon, <2>1, <2>2, <2>3, <2>4 DEF PlaceInv, ObjectInv, Mapped
<1> QED BY Zenon, <1>2, <1>3, <1>4 DEF CacheInv

LEMMA DeregisterStep ==
  ASSUME Inv, slab_deregister
  PROVE  CacheInv'
<1>1. /\ emptyq' = <<>> /\ freeq' = <<>> /\ fullq' = <<>>
      /\ cnt' = [empty |-> 0, free |-> 0, full |-> 0]
      /\ objq' = [s \in SlabId |-> {}] /\ freecnt' = [s \in SlabId |-> 0] /\ owned' = {}
  BY DEF slab_deregister
<1>2. Hand' = {}
  <2>1. \A c \in CPU : sh'[c] = NoSlab
    BY DEF slab_deregister, Inv, HandInv
  <2> QED BY <2>1 DEF Hand
<1>3. List(<<>>) /\ Range(<<>>) = {} /\ Len(<<>>) = 0
  BY EmptySeq DEF List, Range, IsInjective
<1>4. ListInv'
  BY Zenon, <1>1, <1>3 DEF ListInv
<1>5. DataType'
  BY <1>1, SlabConstants DEF DataType
<1>6. ASSUME NEW s \in SlabId PROVE PlaceInv(s)' /\ ObjectInv(s)'
  <2>1. s \notin Range(emptyq') /\ s \notin Range(freeq') /\ s \notin Range(fullq') /\ s \notin Hand'
    BY Zenon, <1>1, <1>2, <1>3
  <2>2. objq'[s] = {} /\ freecnt'[s] = 0 /\ Used(s)' = {}
    BY <1>1 DEF Used
  <2>3. Cardinality(objq'[s]) = freecnt'[s]
    BY Zenon, <2>2, FS_EmptySet
  <2>4. Used(s)' \cap objq'[s] = {}
    BY <2>2
  <2> QED BY Zenon, <2>1, <2>2, <2>3, <2>4 DEF PlaceInv, ObjectInv, Mapped
<1> QED BY Zenon, <1>4, <1>5, <1>6 DEF CacheInv

-----------------------------------------------------------------------------
(* Control: who has a slab in hand, and how often a CPU has tried.         *)

ControlType ==
  /\ pc \in [CPU -> {"idle", "look", "grow", "add", "take", "drop"}]
  /\ sh \in [CPU -> SlabId \cup {NoSlab}] /\ tries \in [CPU -> 0 .. 5] /\ fatal \in BOOLEAN

Control == ControlType /\ HandInv /\ TryInv

LEMMA ControlStep ==
  ASSUME Inv, [Next]_vars
  PROVE  Control'
<1>1. Control
  BY DEF Inv, TypeOK, ControlType, Control
<1>2. CASE UNCHANGED vars
  BY Zenon, <1>1, <1>2 DEF vars, Control, ControlType, HandInv, TryInv
<1>3. CASE halted
  BY Zenon, <1>1, <1>3 DEF halted, vars, Control, ControlType, HandInv, TryInv
<1>4. CASE slab_deregister
  BY Zenon, <1>1, <1>4 DEF slab_deregister, Control, ControlType, HandInv, TryInv
<1>5. ASSUME NEW c \in CPU, slab_alloc(c) PROVE Control'
  BY <1>1, <1>5 DEF slab_alloc, At, Goto, Control, ControlType, HandInv, TryInv
<1>6. ASSUME NEW c \in CPU, alloc_partial(c) PROVE Control'
  BY <1>1, <1>6 DEF alloc_partial, Give, At, Goto, Control, ControlType, HandInv, TryInv
<1>7. ASSUME NEW c \in CPU, alloc_empty(c) PROVE Control'
  BY <1>1, <1>7 DEF alloc_empty, Give, At, Goto, Control, ControlType, HandInv, TryInv
<1>8. ASSUME NEW c \in CPU, alloc_none(c) PROVE Control'
  BY <1>1, <1>8 DEF alloc_none, CountTry, At, Goto, Control, ControlType, HandInv, TryInv
<1>9. ASSUME NEW c \in CPU, slab_shrink(c) PROVE Control'
  BY <1>1, <1>9 DEF slab_shrink, At, Goto, Control, ControlType, HandInv, TryInv
<1>10. ASSUME NEW c \in CPU, NEW o \in owned, slab_free(c, o) PROVE Control'
  BY <1>1, <1>10 DEF slab_free, At, Control, ControlType, HandInv, TryInv
<1>11. ASSUME NEW c \in CPU, grow_alloc(c) PROVE Control'
  <2>1. ASSUME NEW s \in SlabId \ Live, sh' = [sh EXCEPT ![c] = s], Goto(c, "add"), UNCHANGED fatal
        PROVE  Control'
    <3>1. \A d \in CPU : sh[d] # s
      BY DEF Live
    <3>2. pc[c] = "grow" /\ tries' = tries /\ s # NoSlab
      BY <1>11, SlabConstants DEF grow_alloc, At
    <3> QED BY <1>1, <2>1, <3>1, <3>2 DEF Goto, Control, ControlType, HandInv, TryInv
  <2>2. ASSUME fatal' = TRUE, UNCHANGED <<sh, pc>> PROVE Control'
    <3>1. tries' = tries
      BY <1>11 DEF grow_alloc
    <3> QED BY Zenon, <1>1, <2>2, <3>1 DEF Control, ControlType, HandInv, TryInv
  <2> QED BY Zenon, <1>11, <2>1, <2>2 DEF grow_alloc
<1>12. ASSUME NEW c \in CPU, grow_add(c) PROVE Control'
  BY <1>1, <1>12 DEF grow_add, At, Goto, Control, ControlType, HandInv, TryInv
<1>13. ASSUME NEW c \in CPU, shrink_take(c) PROVE Control'
  <2>1. ASSUME emptyq # <<>>
        PROVE  /\ Head(emptyq) \in SlabId
               /\ \A d \in CPU : sh[d] # Head(emptyq)
    <3>1. Head(emptyq) \in SlabId /\ Head(emptyq) \in Range(emptyq)
      BY Zenon, <2>1, RemoveHead DEF Inv, ListInv
    <3>2. Head(emptyq) \notin Hand
      BY Zenon, <3>1 DEF Inv, PlaceInv
    <3> QED BY <3>1, <3>2, SlabConstants DEF Hand
  <2> QED BY <1>1, <1>13, <2>1, SlabConstants
          DEF shrink_take, At, Goto, Control, ControlType, HandInv, TryInv
<1>14. ASSUME NEW c \in CPU, shrink_drop(c) PROVE Control'
  BY <1>1, <1>14 DEF shrink_drop, At, Goto, Control, ControlType, HandInv, TryInv
<1> QED BY Zenon, <1>2, <1>3, <1>4, <1>5, <1>6, <1>7, <1>8, <1>9, <1>10, <1>11, <1>12, <1>13, <1>14
        DEF Next

-----------------------------------------------------------------------------
LEMMA CacheStep ==
  ASSUME Inv, [Next]_vars
  PROVE  CacheInv'
<1>1. CASE UNCHANGED vars
  BY <1>1, QuietStep DEF vars, queueVars
<1>2. CASE halted
  BY <1>2, QuietStep DEF halted, vars, queueVars
<1>3. CASE slab_deregister
  BY <1>3, DeregisterStep
<1>4. ASSUME NEW c \in CPU, slab_alloc(c) \/ alloc_none(c) \/ slab_shrink(c) PROVE CacheInv'
  <2>1. UNCHANGED <<emptyq, freeq, fullq, cnt, objq, freecnt, owned, sh>>
    BY <1>4 DEF slab_alloc, alloc_none, slab_shrink, queueVars
  <2> QED BY <2>1, QuietStep
<1> QED BY Zenon, <1>1, <1>2, <1>3, <1>4, PartialStep, EmptyStep, FreeStep, GrowAllocStep, GrowAddStep,
           ShrinkTakeStep, ShrinkDropStep
        DEF Next

LEMMA InvStep ==
  ASSUME Inv, [Next]_vars
  PROVE  Inv'
<1>1. CacheInv' /\ Control'
  BY CacheStep, ControlStep
<1>2. emptyq' \in Seq(SlabId) /\ freeq' \in Seq(SlabId) /\ fullq' \in Seq(SlabId)
  BY Zenon, <1>1 DEF CacheInv, ListInv, List
<1>3. cnt' \in [empty : Nat, free : Nat, full : Nat]
  <2>1. Len(emptyq') \in Nat /\ Len(freeq') \in Nat /\ Len(fullq') \in Nat
    BY <1>2, LenProperties
  <2>2. cnt' = [empty |-> Len(emptyq'), free |-> Len(freeq'), full |-> Len(fullq')]
    BY Zenon, <1>1 DEF CacheInv, ListInv
  <2> QED BY <2>1, <2>2
<1>4. TypeOK'
  BY Zenon, <1>1, <1>2, <1>3 DEF CacheInv, DataType, Control, ControlType, TypeOK
<1> QED BY Zenon, <1>1, <1>4 DEF CacheInv, Control, Inv

(* The invariant holds of slabinc.c from slab_register on.                 *)
THEOREM InvHolds == Spec => []Inv
<1>1. Init => Inv
  <2> SUFFICES ASSUME Init PROVE Inv
    OBVIOUS
  <2>1. CacheInv
    BY EmptyCache
  <2>2. ControlType /\ HandInv /\ TryInv
    <3>1. /\ pc = [c \in CPU |-> "idle"] /\ sh = [c \in CPU |-> NoSlab]
          /\ tries = [c \in CPU |-> 0] /\ fatal = FALSE
      BY Zenon DEF Init
    <3>2. ControlType
      <4>1. fatal \in BOOLEAN
        BY Zenon, <3>1
      <4>2. tries \in [CPU -> 0 .. 5]
        BY <3>1
      <4>3. pc \in [CPU -> {"idle", "look", "grow", "add", "take", "drop"}]
            /\ sh \in [CPU -> SlabId \cup {NoSlab}]
        BY Zenon, <3>1
      <4> QED BY Zenon, <4>1, <4>2, <4>3 DEF ControlType
    <3>3. HandInv
      BY <3>1 DEF HandInv
    <3>4. TryInv
      BY <3>1 DEF TryInv
    <3> QED BY <3>2, <3>3, <3>4
  <2>3. emptyq \in Seq(SlabId) /\ freeq \in Seq(SlabId) /\ fullq \in Seq(SlabId)
    BY Zenon, <2>1 DEF CacheInv, ListInv, List
  <2>4. cnt \in [empty : Nat, free : Nat, full : Nat]
    BY DEF Init
  <2>5. TypeOK
    BY Zenon, <2>1, <2>2, <2>3, <2>4 DEF CacheInv, DataType, ControlType, TypeOK
  <2> QED BY Zenon, <2>1, <2>2, <2>5 DEF CacheInv, Inv
<1>2. Inv /\ [Next]_vars => Inv'
  BY InvStep
<1> QED BY <1>1, <1>2, PTL DEF Spec

(* Every variable of the cache keeps its type: no count leaves 0 .. Objs.  *)
THEOREM TypeCorrect == Spec => []TypeOK
<1>1. Inv => TypeOK
  BY DEF Inv
<1> QED BY <1>1, InvHolds, PTL

(* What the invariant says of a slab in use.                               *)
LEMMA InvSound ==
  ASSUME Inv PROVE SlabSound
<1>1. /\ TypeOK /\ List(emptyq) /\ List(freeq) /\ List(fullq)
      /\ cnt = [empty |-> Len(emptyq), free |-> Len(freeq), full |-> Len(fullq)]
      /\ \A s \in SlabId : PlaceInv(s) /\ ObjectInv(s)
  BY Zenon DEF Inv, ListInv
<1>2. Range(emptyq) \subseteq SlabId /\ Range(freeq) \subseteq SlabId /\ Range(fullq) \subseteq SlabId
  BY <1>1, RangeOfSeq DEF List
<1>3. ListsAgree
  <2>1. \A s \in Range(emptyq) : freecnt[s] = Objs /\ s \notin Range(freeq) /\ s \notin Range(fullq)
    BY Zenon, <1>1, <1>2 DEF PlaceInv
  <2>2. \A s \in Range(freeq) : freecnt[s] \in 1 .. Objs - 1 /\ s \notin Range(fullq)
    BY Zenon, <1>1, <1>2 DEF PlaceInv
  <2>3. \A s \in Range(fullq) : freecnt[s] = 0
    BY Zenon, <1>1, <1>2 DEF PlaceInv
  <2>4. Range(emptyq) \cap Range(freeq) = {}
    BY <2>1
  <2>5. List(emptyq \o freeq) /\ Range(emptyq \o freeq) = Range(emptyq) \cup Range(freeq)
    BY Zenon, <1>1, <2>4, ConcatLists
  <2>6. Range(emptyq \o freeq) \cap Range(fullq) = {}
    BY <2>1, <2>2, <2>5
  <2>7. List((emptyq \o freeq) \o fullq)
    BY Zenon, <1>1, <2>5, <2>6, ConcatLists
  <2> QED BY Zenon, <1>1, <2>1, <2>2, <2>3, <2>7 DEF ListsAgree, List
<1>4. ASSUME NEW s \in SlabId
      PROVE  /\ Used(s) \cap objq[s] = {} /\ Cardinality(objq[s]) = freecnt[s]
             /\ Used(s) # {} => Used(s) \cup objq[s] = 1 .. Objs
                                /\ s \in Range(freeq) \cup Range(fullq)
  <2>1. Used(s) \cap objq[s] = {} /\ Cardinality(objq[s]) = freecnt[s]
    BY Zenon, <1>1 DEF ObjectInv
  <2>2. ASSUME Used(s) # {}
        PROVE  Used(s) \cup objq[s] = 1 .. Objs /\ s \in Range(freeq) \cup Range(fullq)
    <3>1. Mapped(s) /\ Used(s) \cup objq[s] = 1 .. Objs
      BY Zenon, <1>1, <2>2 DEF ObjectInv
    <3>2. objq[s] # 1 .. Objs
      <4>1. PICK x : x \in Used(s)
        BY <2>2
      <4>2. x \in 1 .. Objs
        BY <4>1 DEF Used
      <4>3. x \notin objq[s]
        BY <2>1, <4>1
      <4> QED BY Zenon, <4>2, <4>3
    <3>3. freecnt[s] # Objs
      BY Zenon, <1>1, <2>1, <3>2, Objects
    <3>4. s \in Range(freeq) \/ s \in Range(fullq)
      BY Zenon, <1>1, <3>1, <3>3 DEF PlaceInv, Mapped
    <3> QED BY <3>1, <3>4
  <2> QED BY <2>1, <2>2
<1>5. ObjectOnce
  BY Zenon, <1>4 DEF ObjectOnce, Used
<1> QED BY <1>3, <1>5 DEF SlabSound

(* However many CPUs allocate from, free to, grow and shrink a cache at    *)
(* once: no object is handed out twice, none in use lies in a slab that    *)
(* was given back, every slab is on the one list its free objects say, and *)
(* slab_printstats shows the lengths of the lists.                         *)
THEOREM SlabsSound == Spec => []SlabSound
<1>1. Inv => SlabSound
  BY InvSound
<1> QED BY <1>1, InvHolds, PTL

=============================================================================
