------------------------------- MODULE VaPool -------------------------------
(***************************************************************************)
(* What an allocator of address ranges promises: an allocation takes n     *)
(* consecutive free addresses, and may fail only when no run of free       *)
(* addresses is as long as n rounded up to a power of two; whatever is     *)
(* freed can be allocated again, in one piece with the free space around   *)
(* it.                                                                     *)
(***************************************************************************)
EXTENDS Integers, FiniteSets

CONSTANTS User, Addr, Sizes

VARIABLES
  free,     \* free addresses
  out,      \* ranges each user owns
  answer    \* last answer to each user: "none", "failed" or "given"

Range(a, n) == a .. a + n - 1
Pow2(n) == CHOOSE m \in {2 ^ k : k \in 0 .. n} : m >= n /\ m < 2 * n

Init == free = Addr /\ out = [u \in User |-> {}] /\ answer = [u \in User |-> "none"]

Alloc(u, a, n) ==
  /\ Range(a, n) \subseteq free
  /\ free' = free \ Range(a, n)
  /\ out' = [out EXCEPT ![u] = @ \cup {<<a, n>>}]
  /\ answer' = [answer EXCEPT ![u] = "given"]

Fail(u, n) ==
  /\ \A a \in free : ~(Range(a, Pow2(n)) \subseteq free)
  /\ answer' = [answer EXCEPT ![u] = "failed"]
  /\ UNCHANGED <<free, out>>

Free(u, a, n) ==
  /\ <<a, n>> \in out[u]
  /\ out' = [out EXCEPT ![u] = @ \ {<<a, n>>}]
  /\ free' = free \cup Range(a, n)
  /\ answer' = [answer EXCEPT ![u] = "none"]

Next ==
  \E u \in User, n \in Sizes :
    \/ Fail(u, n)
    \/ \E a \in Addr : Alloc(u, a, n) \/ Free(u, a, n)

Spec == Init /\ [][Next]_<<free, out, answer>>

=============================================================================
