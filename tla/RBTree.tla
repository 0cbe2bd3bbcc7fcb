------------------------------- MODULE RBTree -------------------------------
(***************************************************************************)
(* The intrusive red-black tree the planner keeps its points in             *)
(* (src/common/yggdrasil/rbtree.cpp, bst.cpp).                              *)
(*                                                                          *)
(* A tree is a record: the root; for each node its two children (0 is left, *)
(* 1 is right), its parent and its key; the set of red nodes; and what the  *)
(* callbacks keep in the nodes.  Left and right are sides, so that a case   *)
(* and its mirror image are one definition.                                 *)
(***************************************************************************)
EXTENDS Integers, FiniteSets, Functions, TLC

CONSTANTS      \* the callbacks of NodeTraits: the tree after each
    leaf_inserted(_, _),    \* of the tree and the new leaf
    rotated(_, _),          \* of the tree and the node that went down
    deleted_below(_, _),    \* of the tree and the node that lost a child
    swapped(_, _, _)        \* of the tree and the nodes that changed places

nullptr == -1

EmptyTree ==
    LET none == [n \in {} |-> n]
    IN  [root |-> nullptr, child |-> none, parent |-> none, key |-> none,
         red |-> {}, min |-> none]

Nodes(t) == DOMAIN t.key

Side(t, n) == IF t.child[t.parent[n]][0] = n THEN 0 ELSE 1

set_parent(t, n, above) == IF n = nullptr THEN t ELSE [t EXCEPT !.parent[n] = above]

\* Above, or the root for none, the place of one node is taken by another.
Relink(t, above, old, new) ==
    IF above = nullptr THEN [t EXCEPT !.root = new]
    ELSE [t EXCEPT !.child[above][IF t.child[above][0] = old THEN 0 ELSE 1] = new]

\* rotate_left (side 0) and rotate_right (side 1): node n goes down on that side.
rotate(t, n, side) ==
    LET up    == t.child[n][1 - side]
        inner == t.child[up][side]
        above == t.parent[n]
        turned == [t EXCEPT !.child[n][1 - side] = inner, !.child[up][side] = n,
                            !.parent[up] = above, !.parent[n] = up]
    IN  rotated(Relink(set_parent(turned, inner, n), above, n, up), n)

(***************************************************************************)
(* Insertion.                                                               *)
(***************************************************************************)
\* The side on which a key goes below a node: equal keys go to the left.
GoesTo(t, n, key) == IF t.key[n] < key THEN 1 ELSE 0

RECURSIVE LeafFor(_, _, _)

\* The node below which a key is inserted.
LeafFor(t, n, key) ==
    LET next == t.child[n][GoesTo(t, n, key)]
    IN  IF next = nullptr THEN n ELSE LeafFor(t, next, key)

RECURSIVE fixup_after_insert(_, _)

fixup_after_insert(t, n) ==
    LET parent == t.parent[n]
        grandparent == t.parent[parent]
        side  == Side(t, parent)
        uncle == t.child[grandparent][1 - side]
        recolored == [t EXCEPT !.red = @ \ {parent, uncle}]
        unfolded  == IF t.child[parent][1 - side] = n    \* 'folded in'
                       THEN [rotate(t, parent, side) EXCEPT !.red = @ \ {n}]
                       ELSE [t EXCEPT !.red = @ \ {parent}]
    IN  IF parent \notin t.red THEN t
        ELSE IF uncle \in t.red
          THEN IF t.parent[grandparent] = nullptr THEN recolored
               ELSE fixup_after_insert([recolored EXCEPT !.red = @ \cup {grandparent}],
                                       grandparent)
        ELSE [rotate(unfolded, grandparent, 1 - side) EXCEPT !.red = @ \cup {grandparent}]

insert(t, n, key) ==
    LET above == IF t.root = nullptr THEN nullptr ELSE LeafFor(t, t.root, key)
        leaf  == [t EXCEPT !.child = (n :> [s \in 0 .. 1 |-> nullptr]) @@ @,
                           !.parent = (n :> above) @@ @,
                           !.key = (n :> key) @@ @]
    IN  IF above = nullptr THEN leaf_inserted([leaf EXCEPT !.root = n], n)
        ELSE fixup_after_insert(
               leaf_inserted([leaf EXCEPT !.child[above][GoesTo(t, above, key)] = n,
                                          !.red = @ \cup {n}], n), n)

(***************************************************************************)
(* Removal.                                                                 *)
(***************************************************************************)
\* A node and a descendant change places (swap_neighbors, swap_unrelated_nodes);
\* colours stay with the places, or go with the nodes.
swap_nodes(t, n1, n2, swap_colors) ==
    LET other(n) == IF n = n1 THEN n2 ELSE IF n = n2 THEN n1 ELSE n
    IN  swapped([t EXCEPT
            !.root   = other(@),
            !.child  = [n \in DOMAIN @ |-> [s \in 0 .. 1 |-> other(t.child[other(n)][s])]],
            !.parent = [n \in DOMAIN @ |-> other(t.parent[other(n)])],
            !.red    = IF swap_colors THEN @ ELSE {other(n) : n \in @}], n1, n2)

NoRedChild(t, n) == \A s \in 0 .. 1 : t.child[n][s] \notin t.red

RECURSIVE fixup_after_delete(_, _, _)

\* A black node was deleted under parent, on that side; cases as in the source.
fixup_after_delete(t, parent, side) ==
    LET sibling == t.child[parent][1 - side]
        above   == t.parent[parent]
        paler   == [t EXCEPT !.red = @ \cup {sibling}]
        t2   == IF sibling \in t.red                                     \* case 2
                  THEN rotate([t EXCEPT !.red = (@ \ {sibling}) \cup {parent}], parent, side)
                  ELSE t
        sib2 == t2.child[parent][1 - side]
        near == t2.child[sib2][side]
        folded == t2.child[sib2][1 - side] \notin t2.red                 \* case 5
        t5   == IF folded
                  THEN [rotate(t2, sib2, 1 - side) EXCEPT !.red = (@ \ {near}) \cup {sib2}]
                  ELSE t2
        sib5 == IF folded THEN near ELSE sib2
        t6   == rotate(t5, parent, side)                                 \* case 6
        reds == (t6.red \ {parent, sib5, t6.child[sib5][1 - side]})
                  \cup (IF parent \in t6.red THEN {sib5} ELSE {})
                  \cup (IF sib5 \in t6.red THEN {parent} ELSE {})
    IN  IF {parent, sibling} \cap t.red = {} /\ NoRedChild(t, sibling)   \* case 3
          THEN IF above = nullptr THEN paler
               ELSE fixup_after_delete(paler, above, Side(t, parent))
        ELSE IF sib2 \notin t2.red /\ NoRedChild(t2, sib2)               \* case 4
          THEN [t2 EXCEPT !.red = (@ \ {parent}) \cup {sib2}]
        ELSE [t6 EXCEPT !.red = reds]

RECURSIVE Leftmost(_, _)

Leftmost(t, n) == IF t.child[n][0] = nullptr THEN n ELSE Leftmost(t, t.child[n][0])

remove_to_leaf(t, n) ==
    LET left  == t.child[n][0]
        right == t.child[n][1]
        heir  == IF left # nullptr /\ right # nullptr THEN Leftmost(t, right)
                 ELSE IF left # nullptr THEN left ELSE n
        low   == IF heir = n THEN t ELSE swap_nodes(t, n, heir, FALSE)
        below == low.child[n][1]
        above == low.parent[n]
        raised == swap_nodes(low, n, below, TRUE)
        cut    == deleted_below([low EXCEPT !.child[above][Side(low, n)] = nullptr], above)
    IN  IF below # nullptr
          THEN deleted_below([raised EXCEPT !.red = @ \ {below},
                                            !.child[below][1] = nullptr], below)
        ELSE IF above = nullptr THEN [low EXCEPT !.root = nullptr]
        ELSE IF n \in low.red THEN cut
        ELSE fixup_after_delete(cut, above, Side(low, n))

\* What is left in the node is not looked at again: the node is forgotten.
remove(t, n) ==
    LET without(f) == Restrict(f, DOMAIN f \ {n})
    IN  [remove_to_leaf(t, n) EXCEPT !.child = without(@), !.parent = without(@),
                                     !.key = without(@), !.min = without(@), !.red = @ \ {n}]
=============================================================================
