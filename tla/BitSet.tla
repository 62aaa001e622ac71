------------------------------- MODULE BitSet -------------------------------
(***************************************************************************)
(* What a search tree of include/stree.h promises its users: a set of bit  *)
(* addresses below 2^Order from which the lowest and the highest member    *)
(* can be found, and whose size can be counted.                            *)
(***************************************************************************)
EXTENDS Integers, FiniteSets, FiniteSetsExt

CONSTANTS Order,     \* the tree manages bits 0 .. 2^Order - 1
          NoResult   \* no operation has returned a value yet

VARIABLES bits,      \* the bits that are set
          result     \* what the last operation returned

Bit == 0 .. 2^Order - 1

Init == bits = {} /\ result = NoResult

Set(a) == bits' = bits \cup {a} /\ result' = NoResult
Clear(a) == bits' = bits \ {a} /\ result' = NoResult
SetAll(max) == bits = {} /\ bits' = 0 .. max /\ result' = NoResult

Search(low) ==
  /\ result' = IF bits = {} THEN -1 ELSE IF low THEN Min(bits) ELSE Max(bits)
  /\ UNCHANGED bits

Count == result' = Cardinality(bits) /\ UNCHANGED bits

Next ==
  \/ \E a \in Bit : Set(a) \/ Clear(a) \/ SetAll(a)
  \/ \E low \in BOOLEAN : Search(low)
  \/ Count

Spec == Init /\ [][Next]_<<bits, result>>

=============================================================================
