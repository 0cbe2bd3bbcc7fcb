---------------------------- MODULE MintimeTree ----------------------------
(***************************************************************************)
(* The two search trees of a planner                                        *)
(* (resource/planner/c++/mintime_resource_tree.cpp, scheduled_point_tree.cpp)*)
(* as red-black trees: what their nodes keep, and the descents.             *)
(*                                                                          *)
(* A node is the time of its point.  In the min-time tree the keys are      *)
(* amounts and each node knows the least time below it, subtree_min (min);  *)
(* in the scheduled point tree the keys are times.                          *)
(***************************************************************************)
EXTENDS Integers, FiniteSetsExt, Functions, TLC

null == -1              \* nullptr, and NoTime for the planner

Infinite == 1000000     \* std::numeric_limits<int64_t>::max

(***************************************************************************)
(* The callbacks that keep subtree_min.                                     *)
(***************************************************************************)
RECURSIVE fix_greater(_, _)

\* Variant: a parent that knows of an earlier time is never looked at.
fix_greater(t, n) ==
    LET old == t.min[n]
        new == Min({n} \cup {t.min[c] : c \in {t.child[n][s] : s \in 0 .. 1} \ {null}})
        parent == t.parent[n]
        fixed  == [t EXCEPT !.min[n] = new]
    IN  IF new = old \/ parent = null \/ t.min[parent] < new
        THEN fixed
        ELSE fix_greater(fixed, parent)

RECURSIVE fix(_, _)

\* Upwards from a node, until nothing changes or the parent cannot be concerned.
fix(t, n) ==
    LET old == t.min[n]
        new == Min({n} \cup {t.min[c] : c \in {t.child[n][s] : s \in 0 .. 1} \ {null}})
        parent == t.parent[n]
        fixed  == [t EXCEPT !.min[n] = new]
    IN  IF \/ new = old
           \/ parent = null
           \/ t.min[parent] # old /\ t.min[parent] < new
        THEN fixed
        ELSE fix(fixed, parent)

\* A node, and the one above it.
FixBoth(t, n) ==
    LET a == fix(t, n)
    IN  IF a.parent[n] = null THEN a ELSE fix(a, a.parent[n])

RECURSIVE Lower(_, _, _)

\* The least time on the way up is lowered as long as it is greater.
Lower(t, n, at) ==
    IF n = null \/ t.min[n] <= at THEN t
    ELSE Lower([t EXCEPT !.min[n] = at], t.parent[n], at)

mt_leaf_inserted(t, n) == Lower([t EXCEPT !.min = (n :> n) @@ @], t.parent[n], n)

mt_rotated(t, n) == FixBoth(t, n)

mt_deleted_below(t, n) == fix(t, n)

\* Variant: what is above the two nodes is not looked at.
mt_swapped_only(t, n1, n2) == fix(fix(t, n1), n2)

mt_swapped(t, n1, n2) == FixBoth(FixBoth(t, n1), n2)

mt == INSTANCE RBTree WITH leaf_inserted <- mt_leaf_inserted, rotated <- mt_rotated,
                           deleted_below <- mt_deleted_below, swapped <- mt_swapped

\* The scheduled point tree has no callbacks.
Same(t, n) == t
SameTwo(t, n1, n2) == t

sp == INSTANCE RBTree WITH leaf_inserted <- Same, rotated <- Same,
                           deleted_below <- Same, swapped <- SameTwo

(***************************************************************************)
(* The descents.                                                            *)
(***************************************************************************)
\* The least time at the node and to the right of it.
right_branch_mintime(t, n) ==
    LET right == t.child[n][1]
        least == IF right = null THEN Infinite ELSE t.min[right]
    IN  IF n < least THEN n ELSE least

RECURSIVE AnchorFrom(_, _, _, _)

\* From a node down, with the least time found so far and where it was found.
AnchorFrom(t, n, request, best) ==
    LET here == right_branch_mintime(t, n)
    IN  IF n = null THEN best
        ELSE IF request > t.key[n] THEN AnchorFrom(t, t.child[n][1], request, best)
        ELSE AnchorFrom(t, t.child[n][0], request,
                        IF here < best.min_time THEN [min_time |-> here, anchor |-> n] ELSE best)

find_mintime_anchor(t, request) ==
    AnchorFrom(t, t.root, request, [min_time |-> Infinite, anchor |-> null])

RECURSIVE PointBelow(_, _, _)

\* The node with that time, from a node down; null, which the code reports as
\* ENOTSUP, when the descent misses it.
PointBelow(t, n, min_time) ==
    IF n = null \/ n = min_time THEN n
    ELSE LET left == t.child[n][0]
         IN  PointBelow(t, IF left # null /\ t.min[left] = min_time THEN left
                           ELSE t.child[n][1], min_time)

find_mintime_point(t, anchor, min_time) ==
    IF anchor = null \/ anchor = min_time THEN anchor
    ELSE PointBelow(t, t.child[anchor][1], min_time)

get_mintime(t, request) ==
    LET a == find_mintime_anchor(t, request)
    IN  find_mintime_point(t, a.anchor, a.min_time)

RECURSIVE StateFrom(_, _, _, _)

\* scheduled_point_tree_t::get_state: the most recent point at or before a time.
StateFrom(t, n, at, last_state) ==
    IF n = null THEN last_state
    ELSE IF at < n THEN StateFrom(t, t.child[n][0], at, last_state)
    ELSE IF at > n THEN StateFrom(t, t.child[n][1], at, IF n > last_state THEN n ELSE last_state)
    ELSE n

StateDescent(t, at) == StateFrom(t, t.root, at, null)
=============================================================================
