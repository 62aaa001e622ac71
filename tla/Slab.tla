-------------------------------- MODULE Slab --------------------------------
(***************************************************************************)
(* The slab allocator: libnux/slabinc.c as slab.c instantiates it.  One    *)
(* cache keeps its slabs on three lists, by whether all, some or none of   *)
(* their objects are free.  The cache's lock is dropped while a slab is    *)
(* mapped or unmapped, so that growing and shrinking CPUs interleave.      *)
(***************************************************************************)
EXTENDS Integers, Sequences, FiniteSets, Functions

CONSTANTS
  CPU,
  SlabId,   \* aligned ranges ___slaballoc can return
  Objs,     \* ___slabobjs: objects in a slab
  NoSlab,
  MaxOwned  \* bound: objects in use at a time

\* A slab of one object ends up on freeq, full or empty: alloc_empty, slab_free.
ASSUME SlabConstants == Objs \in Nat \ {0, 1} /\ MaxOwned \in Nat /\ NoSlab \notin SlabId

VARIABLES
  emptyq, freeq, fullq,
  cnt,      \* emptycnt, freecnt and fullcnt of the cache
  objq,     \* free objects of each slab
  freecnt,  \* sh->freecnt
  pc, sh, tries,
  owned,    \* objects the callers own
  fatal

queueVars == <<emptyq, freeq, fullq, cnt>>
vars == <<queueVars, objq, freecnt, pc, sh, tries, owned, fatal>>

Object == SlabId \X (1 .. Objs)
TypeOK ==
  /\ \A q \in {emptyq, freeq, fullq} : q \in Seq(SlabId)
  /\ cnt \in [empty : Nat, free : Nat, full : Nat]
  /\ objq \in [SlabId -> SUBSET (1 .. Objs)] /\ freecnt \in [SlabId -> 0 .. Objs]
  /\ pc \in [CPU -> {"idle", "look", "grow", "add", "take", "drop"}]
  /\ sh \in [CPU -> SlabId \cup {NoSlab}] /\ tries \in [CPU -> 0 .. 5]
  /\ owned \subseteq Object /\ fatal \in BOOLEAN

(* slab_register.                                                          *)
Init ==
  /\ emptyq = <<>> /\ freeq = <<>> /\ fullq = <<>>
  /\ cnt = [empty |-> 0, free |-> 0, full |-> 0]
  /\ objq = [s \in SlabId |-> {}] /\ freecnt = [s \in SlabId |-> 0]
  /\ pc = [c \in CPU |-> "idle"] /\ sh = [c \in CPU |-> NoSlab]
  /\ tries = [c \in CPU |-> 0]
  /\ owned = {} /\ fatal = FALSE

At(c, l) == pc[c] = l /\ ~fatal
Goto(c, l) == pc' = [pc EXCEPT ![c] = l]
Move(from, to) == cnt' = [cnt EXCEPT ![from] = @ - 1, ![to] = @ + 1]

(* Slabs that are mapped: on a list, or on their way to or from one.       *)
Live == Range(emptyq) \cup Range(freeq) \cup Range(fullq) \cup {sh[c] : c \in CPU}

-----------------------------------------------------------------------------
slab_alloc(c) ==
  /\ At(c, "idle") /\ Cardinality(owned) < MaxOwned
  /\ tries' = [tries EXCEPT ![c] = 0]
  /\ Goto(c, "look")
  /\ UNCHANGED <<queueVars, objq, freecnt, sh, owned, fatal>>

(* Take an object of slab s: the end of slab_alloc_opq.                    *)
Give(c, s) ==
  /\ \E o \in objq[s] : /\ objq' = [objq EXCEPT ![s] = @ \ {o}]
                        /\ owned' = owned \cup {<<s, o>>}
  /\ freecnt' = [freecnt EXCEPT ![s] = @ - 1]
  /\ Goto(c, "idle")

(* The locked section: a partial slab, else an empty one, else none.       *)
LastObject(s) == freecnt[s] = 1

alloc_partial(c) ==
  LET s == Head(freeq)
  IN  /\ At(c, "look") /\ freeq # <<>> /\ freecnt[s] > 0
      /\ \/ /\ LastObject(s)
            /\ freeq' = Tail(freeq) /\ fullq' = <<s>> \o fullq
            /\ Move("free", "full")
         \/ ~LastObject(s) /\ UNCHANGED <<freeq, fullq, cnt>>
      /\ Give(c, s)
      /\ UNCHANGED <<emptyq, sh, tries, fatal>>

alloc_empty(c) ==
  LET s == Head(emptyq)
  IN  /\ At(c, "look") /\ freeq = <<>> /\ emptyq # <<>>
      /\ emptyq' = Tail(emptyq) /\ freeq' = <<s>>
      /\ Move("empty", "free")
      /\ Give(c, s)
      /\ UNCHANGED <<fullq, sh, tries, fatal>>

NeverCounts(c) == tries[c]

CountTry(c) == tries[c] + 1

alloc_none(c) ==
  /\ At(c, "look") /\ freeq = <<>> /\ emptyq = <<>>
  /\ tries' = [tries EXCEPT ![c] = CountTry(c)]
  /\ Goto(c, IF tries[c] > 3 THEN "idle" ELSE "grow")
  /\ UNCHANGED <<queueVars, objq, freecnt, sh, owned, fatal>>

(* slab_grow: ___slaballoc and the new header, then the list.              *)
grow_alloc(c) ==
  /\ At(c, "grow")
  /\ \/ \E s \in SlabId \ Live :
          /\ sh' = [sh EXCEPT ![c] = s]
          /\ objq' = [objq EXCEPT ![s] = 1 .. Objs]
          /\ freecnt' = [freecnt EXCEPT ![s] = Objs]
          /\ Goto(c, "add")
          /\ UNCHANGED fatal
     \/ SlabId \subseteq Live /\ fatal' = TRUE /\ UNCHANGED <<sh, objq, freecnt, pc>>
  /\ UNCHANGED <<queueVars, tries, owned>>

grow_add(c) ==
  /\ At(c, "add")
  /\ emptyq' = <<sh[c]>> \o emptyq
  /\ cnt' = [cnt EXCEPT !["empty"] = @ + 1]
  /\ sh' = [sh EXCEPT ![c] = NoSlab]
  /\ Goto(c, "look")
  /\ UNCHANGED <<freeq, fullq, objq, freecnt, tries, owned, fatal>>

-----------------------------------------------------------------------------
LIST_REMOVE(q, s) ==
  LET k == CHOOSE i \in DOMAIN q : q[i] = s
  IN  SubSeq(q, 1, k - 1) \o SubSeq(q, k + 1, Len(q))

EmptyAtTwo(n) == n = 2

AllFree(n) == n = Objs

slab_free(c, o) ==
  LET s == o[1]
      n == freecnt[s] + 1
  IN  /\ At(c, "idle") /\ o \in owned
      /\ owned' = owned \ {o}
      /\ objq' = [objq EXCEPT ![s] = @ \cup {o[2]}]
      /\ freecnt' = [freecnt EXCEPT ![s] = n]
      /\ \/ /\ n = 1
            /\ fullq' = LIST_REMOVE(fullq, s) /\ freeq' = <<s>> \o freeq
            /\ Move("full", "free")
            /\ UNCHANGED emptyq
         \/ /\ n # 1 /\ AllFree(n)
            /\ freeq' = LIST_REMOVE(freeq, s) /\ emptyq' = <<s>> \o emptyq
            /\ Move("free", "empty")
            /\ UNCHANGED fullq
         \/ n # 1 /\ ~AllFree(n) /\ UNCHANGED queueVars
      /\ UNCHANGED <<pc, sh, tries, fatal>>

slab_shrink(c) ==
  /\ At(c, "idle") /\ emptyq # <<>>
  /\ Goto(c, "take")
  /\ UNCHANGED <<queueVars, objq, freecnt, sh, tries, owned, fatal>>

shrink_take(c) ==
  /\ At(c, "take")
  /\ \/ /\ emptyq # <<>>
        /\ sh' = [sh EXCEPT ![c] = Head(emptyq)]
        /\ emptyq' = Tail(emptyq)
        /\ cnt' = [cnt EXCEPT !["empty"] = @ - 1]
        /\ Goto(c, "drop")
     \/ emptyq = <<>> /\ Goto(c, "idle") /\ UNCHANGED <<sh, emptyq, cnt>>
  /\ UNCHANGED <<freeq, fullq, objq, freecnt, tries, owned, fatal>>

(* ___slabfree, without the lock.                                          *)
shrink_drop(c) ==
  /\ At(c, "drop")
  /\ objq' = [objq EXCEPT ![sh[c]] = {}]
  /\ freecnt' = [freecnt EXCEPT ![sh[c]] = 0]
  /\ sh' = [sh EXCEPT ![c] = NoSlab]
  /\ Goto(c, "take")
  /\ UNCHANGED <<queueVars, tries, owned, fatal>>

(* slab_deregister frees every slab, with the objects in use; the caller   *)
(* makes sure that nobody works on the cache.                              *)
slab_deregister ==
  /\ ~fatal /\ \A c \in CPU : pc[c] = "idle"
  /\ emptyq' = <<>> /\ freeq' = <<>> /\ fullq' = <<>>
  /\ cnt' = [empty |-> 0, free |-> 0, full |-> 0]
  /\ objq' = [s \in SlabId |-> {}] /\ freecnt' = [s \in SlabId |-> 0]
  /\ owned' = {}
  /\ UNCHANGED <<pc, sh, tries, fatal>>

halted == fatal /\ UNCHANGED vars

Alloc(c) == alloc_partial(c) \/ alloc_empty(c) \/ alloc_none(c)
Grow(c) == grow_alloc(c) \/ grow_add(c)
Shrink(c) == shrink_take(c) \/ shrink_drop(c)

Next ==
  \/ \E c \in CPU : \/ slab_alloc(c) \/ alloc_partial(c) \/ alloc_empty(c)
                    \/ alloc_none(c) \/ grow_alloc(c) \/ grow_add(c)
                    \/ slab_shrink(c) \/ shrink_take(c) \/ shrink_drop(c)
                    \/ \E o \in owned : slab_free(c, o)
  \/ slab_deregister
  \/ halted

Spec == Init /\ [][Next]_vars

(* Some CPU inside the allocator runs; which one, and who wins the lock,   *)
(* is left open, as the test-and-set lock leaves it.                       *)
FairSpec == Spec /\ WF_vars(\E c \in CPU : Alloc(c) \/ Grow(c) \/ Shrink(c))

-----------------------------------------------------------------------------
(* A slab is on one list only, the one its number of free objects says,    *)
(* and the counts slab_printstats shows are the lengths of the lists.      *)
ListsAgree ==
  /\ cnt = [empty |-> Len(emptyq), free |-> Len(freeq), full |-> Len(fullq)]
  /\ IsInjective(emptyq \o freeq \o fullq)
  /\ \A s \in Range(emptyq) : freecnt[s] = Objs
  /\ \A s \in Range(freeq) : freecnt[s] \in 1 .. Objs - 1
  /\ \A s \in Range(fullq) : freecnt[s] = 0

(* No object is handed out twice, and none lies in a slab that was given   *)
(* back: an object is in use, or free in its slab, never both.             *)
ObjectOnce ==
  \A s \in SlabId :
    LET used == {o \in 1 .. Objs : <<s, o>> \in owned}
    IN  /\ used \cap objq[s] = {} /\ Cardinality(objq[s]) = freecnt[s]
        /\ used # {} => used \cup objq[s] = 1 .. Objs
                        /\ s \in Range(freeq) \cup Range(fullq)

(* slabinc.c: the objects and the lists of a cache are sound, whatever     *)
(* CPUs allocate, free, grow and shrink at once.                           *)
SlabSound == ObjectOnce /\ ListsAgree

(* slabinc.c:134: a CPU whose new slabs are shrunk away under it tries     *)
(* again only so often, so that an allocating and a shrinking CPU do not   *)
(* keep each other busy for ever.                                          *)
SomeoneReturns ==
  (\A c \in CPU : pc[c] # "idle") ~> (fatal \/ \E c \in CPU : pc[c] = "idle")

=============================================================================
