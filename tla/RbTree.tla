------------------------------- MODULE RbTree -------------------------------
(***************************************************************************)
(* The red-black tree of libec/rb.c, as operators on a tree: insertion,    *)
(* removal, lookup and iteration, pointer by pointer.  A tree is a record  *)
(*   kid      [0 |-> left, 1 |-> right] of every node; kid[RootLink][0] is the *)
(*            root, as rb.c treats &rbt->rbt_root as a node                *)
(*   father, pos, red   the three parts of rb_info                         *)
(*   minmax   the cached smallest and largest node                         *)
(*   fault    a rotation followed the sentinel, a null pointer             *)
(* Nodes are ordered by key, a function from nodes to integers.            *)
(* The RBDEBUG list and the RBSTATS counters are compiled out and not here.*)
(***************************************************************************)
EXTENDS Integers, FiniteSets, FiniteSetsExt

CONSTANTS Node,   \* the objects that can be in the tree
          RootLink,   \* &rbt->rbt_root taken as a node
          Null    \* the sentinel

Dir == {0, 1}
Other(d) == 1 - d

rb_tree_init ==
  [kid    |-> [n \in Node \cup {RootLink} |-> [d \in Dir |-> Null]],
   father |-> [n \in Node |-> Null],
   pos    |-> [n \in Node |-> 0],
   red    |-> [n \in Node |-> FALSE],
   minmax |-> [d \in Dir |-> Null],
   fault  |-> FALSE]

Root(t) == t.kid[RootLink][0]
RED(t, n) == n # Null /\ t.red[n]
MARK(t, n, colour) == [t EXCEPT !.red[n] = (colour = "red")]

(* rb_info and the links of a node outside the tree are not read before    *)
(* rb_tree_insert_node overwrites them.                                    *)
Forget(t, n) ==
  [t EXCEPT !.father[n] = Null, !.pos[n] = 0, !.red[n] = FALSE,
            !.kid[n] = [d \in Dir |-> Null]]

-----------------------------------------------------------------------------
(* Lookup.  Search(..)[i] is the node a search for k has come to after i   *)
(* steps; it stops at the sentinel or at a node with key k.  In a proper   *)
(* tree it has stopped after as many steps as there are nodes.             *)
Search(t, key, k) ==
  LET at[i \in 0 .. Cardinality(Node)] ==
        IF i = 0 THEN Root(t)
        ELSE LET n == at[i - 1]
             IN  IF n = Null \/ key[n] = k THEN n
                 ELSE t.kid[n][IF key[n] < k THEN 1 ELSE 0]
  IN  at

LastOf(at, Fits(_)) ==
  LET steps == {i \in DOMAIN at : at[i] # Null /\ Fits(at[i])}
  IN  IF steps = {} THEN Null ELSE at[Max(steps)]

rb_tree_find_node(t, key, k) == Search(t, key, k)[Cardinality(Node)]

(* Broken links can lead a search in a circle.                             *)
Endless(t, key, k) ==
  LET n == rb_tree_find_node(t, key, k) IN n # Null /\ key[n] # k

rb_tree_find_node_geq(t, key, k) == LastOf(Search(t, key, k), LAMBDA n : key[n] >= k)
rb_tree_find_node_leq(t, key, k) == LastOf(Search(t, key, k), LAMBDA n : key[n] <= k)

rb_tree_iterate(t, n, d) ==
  LET RECURSIVE Up(_), Down(_)
      Up(m) == IF m = Root(t) THEN Null
               ELSE IF t.pos[m] = Other(d) THEN t.father[m] ELSE Up(t.father[m])
      Down(m) == IF t.kid[m][Other(d)] = Null THEN m ELSE Down(t.kid[m][Other(d)])
  IN  IF t.kid[n][d] = Null THEN Up(n) ELSE Down(t.kid[n][d])

(* RB_TREE_MIN and RB_TREE_MAX.                                            *)
Extreme(t, d) == IF Root(t) = Null THEN Null ELSE t.minmax[d]

-----------------------------------------------------------------------------
(* Rotation: old_father and its child at which swap places and colours.    *)
rb_tree_reparent_nodes(t, old_father, which) ==
  LET other == Other(which)
      grandpa == t.father[old_father]
      child == t.kid[old_father][which]
      inner == t.kid[child][other]
      moved == [t EXCEPT
        !.kid[grandpa][t.pos[old_father]] = child,
        !.kid[old_father][which] = inner,
        !.kid[child][other] = old_father,
        !.father[child] = grandpa,
        !.father[old_father] = child,
        !.pos[child] = t.pos[old_father],
        !.pos[old_father] = other,
        !.red[child] = t.red[old_father],
        !.red[old_father] = t.red[child]]
  IN  IF child = Null THEN [t EXCEPT !.fault = TRUE]
      ELSE IF inner = Null THEN moved
      ELSE [moved EXCEPT !.father[inner] = old_father, !.pos[inner] = which]

(* self and its father are red: recolour and go up while the uncle is red, *)
(* then rotate once or twice and stop.                                     *)
RECURSIVE rb_tree_insert_rebalance(_, _)
rb_tree_insert_rebalance(t, self) ==
  LET father == t.father[self]
      grandpa == t.father[father]
      which == IF father = t.kid[grandpa][1] THEN 1 ELSE 0
      uncle == t.kid[grandpa][Other(which)]
      recoloured == MARK(MARK(t, uncle, "black"), father, "black")
      higher == MARK(recoloured, grandpa, "red")
      inside == self = t.kid[father][Other(which)]
      case3 == IF inside THEN rb_tree_reparent_nodes(t, father, Other(which)) ELSE t
      rotated == rb_tree_reparent_nodes(case3, grandpa, which)
  IN  IF ~RED(t, uncle) THEN MARK(rotated, Root(rotated), "black")
      ELSE IF grandpa = Root(t) THEN recoloured
      ELSE IF ~RED(higher, higher.father[grandpa]) THEN higher
      ELSE rb_tree_insert_rebalance(higher, grandpa)

(* A mutant: a new smallest or largest node is not recorded.               *)
StaleMinmax(minmax, parent, position, self) ==
  IF parent = RootLink THEN [d \in Dir |-> self] ELSE minmax

(* minmax after self was linked as a leaf below parent.                    *)
InsertMinmax(minmax, parent, position, self) ==
  IF parent = RootLink THEN [d \in Dir |-> self]
  ELSE IF minmax[position] = parent THEN [minmax EXCEPT ![position] = self]
  ELSE minmax

(* The tree after insertion and the node it returns: self, linked below    *)
(* the last node of the search, or a node that already has its key.        *)
rb_tree_insert_node(t, key, self) ==
  LET same == rb_tree_find_node(t, key, key[self])
      last == LastOf(Search(t, key, key[self]), LAMBDA n : TRUE)
      parent == IF last = Null THEN RootLink ELSE last
      position == IF last # Null /\ key[last] < key[self] THEN 1 ELSE 0
      linked == [t EXCEPT !.father[self] = parent,
                          !.pos[self] = position,
                          !.red[self] = (last # Null),
                          !.kid[self] = [d \in Dir |-> Null],
                          !.kid[parent][position] = self,
                          !.minmax = InsertMinmax(@, parent, position, self)]
  IN  IF same # Null THEN [tree |-> t, node |-> same]
      ELSE IF RED(t, last)
      THEN [tree |-> rb_tree_insert_rebalance(linked, self), node |-> self]
      ELSE [tree |-> linked, node |-> self]

-----------------------------------------------------------------------------
(* The branch of parent at which has lost a black node.                    *)
RECURSIVE rb_tree_removal_rebalance(_, _, _)
rb_tree_removal_rebalance(t, parent, which) ==
  LET other == Other(which)
      Nephews(u, b) == RED(u, u.kid[b][0]) \/ RED(u, u.kid[b][1])
      brother == t.kid[parent][other]
      blacks == ~RED(t, parent) /\ ~Nephews(t, brother)
      higher == MARK(t, brother, "red")
      \* case 1: a red brother is rotated up
      t1 == IF blacks THEN rb_tree_reparent_nodes(t, parent, other) ELSE t
      b1 == t1.kid[parent][other]
      \* case 3: the near nephew is rotated up
      t2 == IF ~RED(t1, t1.kid[b1][other]) THEN rb_tree_reparent_nodes(t1, b1, which) ELSE t1
      b2 == t2.kid[parent][other]
  IN  IF RED(t, t.kid[parent][which]) THEN t
      ELSE IF blacks /\ ~RED(t, brother)
      THEN IF parent = Root(t) THEN higher
           ELSE rb_tree_removal_rebalance(higher, t.father[parent], t.pos[parent])
      ELSE IF RED(t1, parent) /\ ~RED(t1, b1) /\ ~Nephews(t1, b1)
      THEN MARK(MARK(t1, parent, "black"), b1, "red")
      ELSE rb_tree_reparent_nodes(MARK(t2, t2.kid[b2][other], "black"), parent, other)

(* A childless node goes.                                                  *)
rb_tree_prune_node(t, self, rebalance) ==
  LET which == t.pos[self]
      father == t.father[self]
      minmax == IF t.minmax[which] # self THEN t.minmax
                ELSE IF Root(t) = self THEN [d \in Dir |-> father]
                ELSE [t.minmax EXCEPT ![which] = father]
      pruned == Forget([t EXCEPT !.kid[father][which] = t.kid[self][0], !.minmax = minmax], self)
  IN  IF rebalance THEN rb_tree_removal_rebalance(pruned, father, which) ELSE pruned

(* A black node with one red child goes, and the child takes its place.    *)
rb_tree_prune_blackred_branch(t, self, which) ==
  LET father == t.father[self]
      son == t.kid[self][which]
      minmax == IF Root(t) = self THEN [t.minmax EXCEPT ![Other(which)] = son]
                ELSE IF t.minmax[t.pos[self]] = self
                THEN [t.minmax EXCEPT ![t.pos[self]] = son]
                ELSE t.minmax
  IN  Forget([t EXCEPT !.pos[son] = t.pos[self], !.red[son] = t.red[self],
                       !.kid[father][t.pos[self]] = son, !.father[son] = father,
                       !.minmax = minmax], self)

(* self has two children: its neighbour standin, which has at most one     *)
(* child, is cut out of the tree and takes the place of self.              *)
rb_tree_swap_prune_and_rebalance(t, self, standin) ==
  LET which == t.pos[standin]
      other == Other(which)
      adjacent == t.father[standin] = self
      father == t.father[standin]
      son == t.kid[standin][IF adjacent THEN which ELSE other]
      recoloured ==
        IF ~RED(t, son) THEN t
        ELSE IF adjacent THEN MARK(t, son, "black")
        ELSE [MARK(t, son, "black") EXCEPT !.father[son] = father, !.pos[son] = which]
      far == t.kid[self][other]     \* the son on the other side of self
      near == t.kid[self][which]
      adopted ==
        IF adjacent
        THEN [recoloured EXCEPT !.kid[standin][other] = far, !.father[far] = standin]
        ELSE [recoloured EXCEPT !.kid[father][which] = son,
                                !.kid[standin][other] = far,
                                !.father[far] = standin,
                                !.kid[standin][which] = near,
                                !.father[near] = standin]
      placed ==
        [adopted EXCEPT !.pos[standin] = t.pos[self],
                        !.red[standin] = t.red[self],
                        !.father[standin] = t.father[self],
                        !.kid[t.father[self]][t.pos[self]] = standin,
                        !.minmax = IF @[t.pos[self]] = self
                                   THEN [@ EXCEPT ![t.pos[self]] = t.father[self]] ELSE @]
      pruned == Forget(placed, self)
  IN  IF t.red[standin] \/ RED(t, son) THEN pruned
      ELSE rb_tree_removal_rebalance(pruned, IF adjacent THEN standin ELSE father, which)

(* A mutant: the removal of a black leaf does not rebalance.               *)
NoRebalanceOfLeaf(t, self) ==
  IF \A d \in Dir : t.kid[self][d] = Null THEN rb_tree_prune_node(t, self, FALSE)
  ELSE IF \E d \in Dir : t.kid[self][d] = Null
  THEN rb_tree_prune_blackred_branch(t, self, IF t.kid[self][0] = Null THEN 1 ELSE 0)
  ELSE rb_tree_swap_prune_and_rebalance(t, self, rb_tree_iterate(t, self, Other(t.pos[self])))

rb_tree_remove_node(t, self) ==
  IF \A d \in Dir : t.kid[self][d] = Null
  THEN rb_tree_prune_node(t, self, ~t.red[self] /\ Root(t) # self)
  ELSE IF \E d \in Dir : t.kid[self][d] = Null
  THEN rb_tree_prune_blackred_branch(t, self, IF t.kid[self][0] = Null THEN 1 ELSE 0)
  ELSE rb_tree_swap_prune_and_rebalance(t, self, rb_tree_iterate(t, self, Other(t.pos[self])))

=============================================================================
