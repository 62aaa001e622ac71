-------------------------------- MODULE RbSet -------------------------------
(***************************************************************************)
(* A red-black tree of libec/rb.c in use: objects with fixed keys are      *)
(* inserted and removed in any order, as kva.c does with its free ranges.  *)
(***************************************************************************)
EXTENDS RbTree

CONSTANT Key     \* the key of every node; two nodes may have the same one

VARIABLES rbt,   \* the tree
          in     \* the nodes their owner inserted and did not remove

vars == <<rbt, in>>

RbConstants ==
  RootLink \notin Node /\ Null \notin Node /\ RootLink # Null /\ Key \in [Node -> Int]

Init == rbt = rb_tree_init /\ in = {}

(* The owner knows from the node it gets back whether its own was taken.   *)
Insert(n) ==
  LET r == rb_tree_insert_node(rbt, Key, n)
  IN  /\ n \notin in
      /\ rbt' = r.tree
      /\ in' = IF r.node = n THEN in \cup {n} ELSE in

Remove(n) ==
  /\ n \in in
  /\ rbt' = rb_tree_remove_node(rbt, n)
  /\ in' = in \ {n}

Next == \E n \in Node : Insert(n) \/ Remove(n)

Spec == Init /\ [][Next]_vars

-----------------------------------------------------------------------------
(* The tree, read off the links: the nodes below n, and the number of      *)
(* black nodes on the way from n to each missing child.                    *)
RECURSIVE Below(_)
Below(n) == IF n = Null THEN {} ELSE {n} \cup Below(rbt.kid[n][0]) \cup Below(rbt.kid[n][1])

RECURSIVE BlackHeights(_)
BlackHeights(n) ==
  IF n = Null THEN {0}
  ELSE {h + (IF rbt.red[n] THEN 0 ELSE 1) :
          h \in BlackHeights(rbt.kid[n][0]) \cup BlackHeights(rbt.kid[n][1])}

(* Every insertion and removal leaves a red-black tree: the root is black, *)
(* a red node has no red child, every path has the same number of black    *)
(* nodes; and the back links agree with the links down.                    *)
RedBlack ==
  /\ ~RED(rbt, Root(rbt))
  /\ Cardinality(BlackHeights(Root(rbt))) = 1
  /\ \A n \in Below(Root(rbt)), d \in Dir :
       LET m == rbt.kid[n][d]
       IN  m # Null => /\ rbt.father[m] = n /\ rbt.pos[m] = d
                       /\ ~(rbt.red[n] /\ rbt.red[m])
  /\ Root(rbt) # Null => rbt.father[Root(rbt)] = RootLink /\ rbt.pos[Root(rbt)] = 0

(* The tree holds the nodes it was given, no key twice, and every lookup   *)
(* answers as on a sorted set: exact, next above, next below, the          *)
(* neighbours of each node, the smallest and the largest.                  *)
Nearest(S, d) ==
  IF S = {} THEN Null
  ELSE CHOOSE n \in S : \A m \in S : IF d = 1 THEN Key[n] <= Key[m] ELSE Key[n] >= Key[m]

LookupsRight ==
  /\ Below(Root(rbt)) = in
  /\ \A k \in {Key[n] : n \in Node} :
       /\ rb_tree_find_node(rbt, Key, k) = Nearest({n \in in : Key[n] = k}, 0)
       /\ rb_tree_find_node_geq(rbt, Key, k) = Nearest({n \in in : Key[n] >= k}, 1)
       /\ rb_tree_find_node_leq(rbt, Key, k) = Nearest({n \in in : Key[n] <= k}, 0)
  /\ \A n \in in :
       /\ rb_tree_iterate(rbt, n, 1) = Nearest({m \in in : Key[m] > Key[n]}, 1)
       /\ rb_tree_iterate(rbt, n, 0) = Nearest({m \in in : Key[m] < Key[n]}, 0)
  /\ Extreme(rbt, 0) = Nearest(in, 1) /\ Extreme(rbt, 1) = Nearest(in, 0)

=============================================================================
