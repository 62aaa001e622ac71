-------------------------------- MODULE Cache -------------------------------
(***************************************************************************)
(* The slot cache of include/nux/cache.h, which pfn_get and pfn_put of     *)
(* pfncache.c use to give physical pages a virtual address: slots with     *)
(* reference counts, a list of the unreferenced ones in the order they     *)
(* were given back, and a red-black tree from addresses to slots.          *)
(* cache_get and cache_put hold the cache's lock throughout.               *)
(***************************************************************************)
EXTENDS RbTree, Sequences, SequencesExt, FiniteSets

CONSTANTS Slot,      \* the slots, in the order of the array
          Address,   \* the addresses (pages) that are asked for
          Crowd,     \* how many slots a cache may have, and who uses such a
                     \* cache: the outstanding pfn_get calls
          None

VARIABLES numslots,
          map,       \* the tree; its nodes are the slots
          freelist,  \* the unreferenced slots, oldest first
          addr,      \* the address a slot was last filled with
          valid, ref,
          use,       \* what each user holds: the slot it got for an address
          stop       \* "HANG": a search goes round in a circle with the lock
                     \* held; "ASSERT": an assertion failed

vars == <<numslots, map, freelist, addr, valid, ref, use, stop>>

CacheConstants ==
  /\ Slot = Node /\ Address \subseteq Int /\ None \notin Slot
  /\ \A n \in DOMAIN Crowd : 1 .. n \subseteq Slot

User == UNION {Crowd[n] : n \in DOMAIN Crowd}

cache_init(n) ==
  /\ numslots = n
  /\ map = rb_tree_init
  /\ freelist = SetToSortSeq(1 .. n, <)
  /\ valid = [s \in Slot |-> FALSE] /\ ref = [s \in Slot |-> 0]

Init ==
  /\ \E n \in DOMAIN Crowd : cache_init(n)
  /\ addr = [s \in Slot |-> 0]
  /\ use = [u \in User |-> None]
  /\ stop = "NO"

-----------------------------------------------------------------------------
(* The kernel still runs; user u holds no slot, or asks to put one.        *)
Running == ~map.fault /\ stop = "NO"
Asks(u) == Running /\ use[u] = None
Puts(u) == Running /\ use[u] # None

Returns(u, s, a) == use' = [use EXCEPT ![u] = [slot |-> s, addr |-> a]]

(* A mutant: a slot stays on the free list with its first reference.       *)
HitStaysFree(s) == freelist

AfterHit(s) == IF ref[s] = 0 THEN Remove(freelist, s) ELSE freelist

(* cache_get finds the address.                                            *)
cache_get_hit(u, a) ==
  LET s == rb_tree_find_node(map, addr, a)
  IN  /\ Asks(u)
      /\ s # Null /\ ~Endless(map, addr, a)
      /\ freelist' = AfterHit(s)
      /\ ref' = [ref EXCEPT ![s] = @ + 1]
      /\ Returns(u, s, a)
      /\ UNCHANGED <<numslots, map, addr, valid, stop>>

(* cache_get does not find it and refills the oldest unreferenced slot,    *)
(* which it inserts without having removed it under its old address.       *)
cache_get_fill(u, a) ==
  LET s == Head(freelist)
  IN  /\ Asks(u)
      /\ rb_tree_find_node(map, addr, a) = Null
      /\ freelist # <<>>
      /\ freelist' = Tail(freelist)
      /\ addr' = [addr EXCEPT ![s] = a]
      /\ ref' = [ref EXCEPT ![s] = 1]
      /\ valid' = [valid EXCEPT ![s] = TRUE]
      /\ map' = rb_tree_insert_node(map, addr', s).tree
      /\ Returns(u, s, a)
      /\ UNCHANGED <<numslots, stop>>

(* Every slot is referenced: cache_get returns -1.                         *)
cache_get_full(u, a) ==
  /\ Asks(u)
  /\ rb_tree_find_node(map, addr, a) = Null
  /\ freelist = <<>>
  /\ Returns(u, None, a)
  /\ UNCHANGED <<numslots, map, freelist, addr, valid, ref, stop>>

(* The search of cache_get never ends, and the lock is never released.     *)
cache_get_hang(u, a) ==
  /\ Asks(u)
  /\ Endless(map, addr, a)
  /\ stop' = "HANG"
  /\ UNCHANGED <<numslots, map, freelist, addr, valid, ref, use>>

(* A mutant: the slot returns to the free list with any reference.         *)
PutAlwaysFrees(s) == Append(freelist, s)

AfterPut(s) == IF ref[s] = 1 THEN Append(freelist, s) ELSE freelist

cache_put(u) ==
  LET s == use[u].slot
  IN  /\ Puts(u) /\ s # None
      /\ ref' = [ref EXCEPT ![s] = @ - 1]
      /\ freelist' = AfterPut(s)
      /\ use' = [use EXCEPT ![u] = None]
      /\ UNCHANGED <<numslots, map, addr, valid, stop>>

(* pfn_get made an address of the -1, pfn_put makes it a slot again.       *)
cache_put_bad(u) ==
  /\ Puts(u) /\ use[u].slot = None
  /\ stop' = "ASSERT"
  /\ UNCHANGED <<numslots, map, freelist, addr, valid, ref, use>>

(* An endless search, a rotation through the sentinel or a failed          *)
(* assertion stops the kernel.                                             *)
halted == ~Running /\ UNCHANGED vars

Next ==
  \/ halted
  \/ \E u \in Crowd[numslots] :
       \/ \E a \in Address : \/ cache_get_hit(u, a) \/ cache_get_fill(u, a)
                              \/ cache_get_full(u, a) \/ cache_get_hang(u, a)
       \/ cache_put(u) \/ cache_put_bad(u)

Spec == Init /\ [][Next]_vars

-----------------------------------------------------------------------------
Holders(s) == {u \in User : use[u] # None /\ use[u].slot = s}

(* The reference count of a slot is the number of users that hold it, and  *)
(* the free list holds each unreferenced slot once and no other: cache_get *)
(* takes a slot off the list with its first reference and cache_put puts   *)
(* it back with its last.                                                  *)
FreeIsUnused ==
  /\ \A s \in Slot : ref[s] = Cardinality(Holders(s))
  /\ ToSet(freelist) = {s \in 1 .. numslots : ref[s] = 0}
  /\ Len(freelist) = Cardinality(ToSet(freelist))

(* A slot keeps its page as long as a user holds it, however the others    *)
(* get, put and refill slots and even when the tree is broken: what        *)
(* pfn_get's callers count on.                                             *)
HeldKeepsPage ==
  \A u \in User : use[u] # None /\ use[u].slot # None => addr[use[u].slot] = use[u].addr

(* "Not present in the cache." (cache.h:144): cache_get refills a slot     *)
(* only for an address that no slot holds.                                 *)
MissIsAbsent ==
  \A a \in Address : rb_tree_find_node(map, addr, a) = Null =>
                       ~\E s \in Slot : valid[s] /\ addr[s] = a

=============================================================================
