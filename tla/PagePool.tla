------------------------------ MODULE PagePool ------------------------------
(***************************************************************************)
(* What pfn_alloc, pfn_free and nux_set_allocator promise: an allocation   *)
(* atomically takes a free page of the allocator in force, or fails        *)
(* because there is none; the S-tree allocator takes its lowest or its     *)
(* highest page; the pair of functions is replaced as one.                 *)
(***************************************************************************)
EXTENDS FiniteSetsExt, Integers

CONSTANTS CPU, Page, Allocator

VARIABLES
  free,     \* free pages of each allocator
  out,      \* pages handed out to each CPU
  cur       \* the allocator in force

Init ==
  /\ free = [a \in Allocator |-> IF a = "stree" THEN Page ELSE {}]
  /\ out = [c \in CPU |-> {}]
  /\ cur = "stree"

Alloc(c, p) ==
  /\ p \in free[cur]
  /\ cur = "stree" => p \in {Min(free[cur]), Max(free[cur])}
  /\ free' = [free EXCEPT ![cur] = @ \ {p}]
  /\ out' = [out EXCEPT ![c] = @ \cup {p}]
  /\ UNCHANGED cur

Free(c, p) ==
  /\ p \in out[c]
  /\ free' = [free EXCEPT ![cur] = @ \cup {p}]
  /\ out' = [out EXCEPT ![c] = @ \ {p}]
  /\ UNCHANGED cur

SetAllocator(a) == cur' = a /\ UNCHANGED <<free, out>>

Next ==
  \/ \E c \in CPU, p \in Page : Alloc(c, p) \/ Free(c, p)
  \/ \E a \in Allocator : SetAllocator(a)

Spec == Init /\ [][Next]_<<free, out, cur>>

-----------------------------------------------------------------------------
(* A page is free in one allocator or handed out to one CPU, never both    *)
(* and never twice.                                                        *)
PageOnce ==
  /\ \A a, b \in Allocator : a # b => free[a] \cap free[b] = {}
  /\ \A c, d \in CPU : c # d => out[c] \cap out[d] = {}
  /\ \A a \in Allocator, c \in CPU : free[a] \cap out[c] = {}

=============================================================================
