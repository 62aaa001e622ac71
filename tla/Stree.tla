-------------------------------- MODULE Stree -------------------------------
(***************************************************************************)
(* The search tree of include/stree.h, in which the page allocator and the *)
(* bootloader keep the free physical pages: a bitmap (level 0) and, above  *)
(* it, one bitmap per level whose bits say which words below are not zero. *)
(* All levels live in one array of words, one after the other.  A word is  *)
(* the set of its bits that are one.                                       *)
(***************************************************************************)
EXTENDS Integers, FiniteSetsExt

CONSTANTS WORDLOG2,  \* a word has 2^WORDLOG2 bits
          Order,     \* the tree manages 2^Order bits
          Addr,      \* the bit addresses the callers use
          NoResult

VARIABLES stree,     \* the array of words
          result     \* what the last operation returned

vars == <<stree, result>>

StreeConstants ==
  WORDLOG2 \in Nat \ {0} /\ Order \in Nat \ {0} /\ Addr \subseteq 0 .. 2^Order - 1

WORDSIZE == 2^WORDLOG2
STREE_SIZE == (2^Order - 1 + WORDSIZE - 2) \div (WORDSIZE - 1)
LOGWORD == (Order + WORDLOG2 - 1) \div WORDLOG2
Level == 0 .. LOGWORD - 1

Bit == 0 .. 2^Order - 1

(* The word at which the bitmap of each level starts, and the position of  *)
(* an address in the bitmap of a level.                                    *)
stree_lmap_off ==
  [l \in Level |->
     (2^(Order - WORDLOG2 * (l - 1)) * ((2^(WORDLOG2 * l) - 1) \div (WORDSIZE - 1)))
       \div WORDSIZE]

lmap_bitoff(l, a) == a \div 2^(WORDLOG2 * l)

(* The word of each level that holds an address, and its bit in that word. *)
WordOf ==
  [l \in Level |-> [a \in Bit |-> stree_lmap_off[l] + lmap_bitoff(l, a) \div WORDSIZE]]
BitOf == [l \in Level |-> [a \in Bit |-> lmap_bitoff(l, a) % WORDSIZE]]

-----------------------------------------------------------------------------
(* The bits of word i that address a occupies at the given levels.         *)
BitsAt(levels, a, i) == {BitOf[l][a] : l \in {k \in levels : WordOf[k][a] = i}}

(* A mutant: only the level right above the bitmap hears of a first bit.   *)
SetTwoLevels(m, a) ==
  LET up == {l \in Level : l = 0 \/ (l = 1 /\ m[WordOf[0][a]] = {})}
  IN  [i \in DOMAIN m |-> m[i] \cup BitsAt(up, a, i)]

(* stree_setbit sets the bit of every level up to and including the first  *)
(* whose word had a bit set before.                                        *)
stree_setbit(m, a) ==
  LET up == {l \in Level : \A k \in Level : k < l => m[WordOf[k][a]] = {}}
  IN  [i \in DOMAIN m |-> m[i] \cup BitsAt(up, a, i)]

(* stree_clrbit clears the bit of every level up to and including the      *)
(* first whose word is left with a bit set.                                *)
stree_clrbit(m, a) ==
  LET up == {l \in Level : \A k \in Level : k < l =>
                             m[WordOf[k][a]] \subseteq {BitOf[k][a]}}
  IN  [i \in DOMAIN m |-> m[i] \ BitsAt(up, a, i)]

(* stree_setall fills every level up to the bit of max.                    *)
stree_setall(m, max) ==
  [i \in DOMAIN m |->
     LET ls == {l \in Level : i \in stree_lmap_off[l] .. WordOf[l][max]}
     IN  IF ls = {} THEN m[i]
         ELSE LET l == CHOOSE k \in ls : TRUE
              IN  IF i < WordOf[l][max] THEN 0 .. WORDSIZE - 1 ELSE 0 .. BitOf[l][max]]

(* stree_bitsearch takes one bit of the address from each level, top       *)
(* first.  An empty word is -1 at the top level; below it, it is the       *)
(* assertion that fails.                                                   *)
Corrupted == -2
stree_bitsearch(m, low) ==
  LET found[l \in 0 .. LOGWORD] ==
        IF l = LOGWORD THEN 0
        ELSE LET laddr == found[l + 1]
                 word == m[WordOf[l][laddr]]
                 bit == IF low THEN Min(word) ELSE Max(word)
             IN  IF laddr < 0 THEN laddr
                 ELSE IF word # {} THEN laddr + bit * 2^(l * WORDLOG2)
                 ELSE IF l = LOGWORD - 1 THEN -1 ELSE Corrupted
  IN  found[0]

stree_count(m) ==
  MapThenSumSet(LAMBDA i : Cardinality(m[i]), 0 .. (2^Order - 1) \div WORDSIZE)

-----------------------------------------------------------------------------
Empty == [i \in 0 .. STREE_SIZE - 1 |-> {}]

(* The bootloader sets up a zeroed tree.                                   *)
Init == stree = Empty /\ result = NoResult

Set(a) == stree' = stree_setbit(stree, a) /\ result' = NoResult
Clear(a) == stree' = stree_clrbit(stree, a) /\ result' = NoResult
SetAll(a) == stree = Empty /\ stree' = stree_setall(stree, a) /\ result' = NoResult
Search(low) == result' = stree_bitsearch(stree, low) /\ UNCHANGED stree
Count == result' = stree_count(stree) /\ UNCHANGED stree

Next ==
  \/ \E a \in Addr : Set(a) \/ Clear(a) \/ SetAll(a)
  \/ \E low \in BOOLEAN : Search(low)
  \/ Count

Spec == Init /\ [][Next]_vars

-----------------------------------------------------------------------------
(* The tree behaves as a plain set of bits: whatever the sequence of       *)
(* updates, stree_bitsearch returns the lowest (highest) set bit, -1 only  *)
(* when there is none and never fails its assertion, and stree_count       *)
(* counts the bits that are set.                                           *)
Bits == {a \in Bit : a % WORDSIZE \in stree[a \div WORDSIZE]}
Abs == INSTANCE BitSet WITH bits <- Bits
IsBitSet == Abs!Spec

=============================================================================
