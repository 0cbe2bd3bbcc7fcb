----------------------------- MODULE PointTrees -----------------------------
(***************************************************************************)
(* A search tree of a planner under any sequence of insertions and          *)
(* removals of points.  A planner inserts a point only while it is not in   *)
(* the tree and removes it only while it is (in_mt_resource_tree); the tree *)
(* that a copied planner damages (see PlannerClient) is not in scope here.  *)
(***************************************************************************)
EXTENDS MintimeTree, Sequences, SequencesExt

CONSTANTS
    PointTimes,     \* the times a point may have
    Amounts,        \* the amounts that may remain at a point
    Starts          \* where to begin: [points, more], the points already inserted,
                    \* in order, and the bound on the insertions that follow

ASSUME TreeAssumption ==
    /\ PointTimes \subseteq Nat /\ Amounts \subseteq Nat
    /\ \A s \in Starts :
          s.points \in Seq([at: PointTimes, amount: Amounts]) /\ s.more \in Nat

VARIABLES
    which,      \* "mt": the min-time tree; "sp": the scheduled point tree
    tree,       \* the tree
    more        \* number of insertions that may follow

tvars == <<which, tree, more>>

\* mintime_resource_tree_t::insert and scheduled_point_tree_t::insert.
Inserted(kind, t, at, amount) ==
    IF kind = "mt" THEN mt!insert(t, at, amount) ELSE sp!insert(t, at, at)

Removed(kind, t, at) == IF kind = "mt" THEN mt!remove(t, at) ELSE sp!remove(t, at)

TreeInit ==
    /\ which \in {"mt", "sp"}
    /\ \E s \in Starts :
          /\ tree = FoldLeft(LAMBDA t, pt : Inserted(which, t, pt.at, pt.amount),
                             mt!EmptyTree, s.points)
          /\ more = s.more

InsertPoint(at, amount) ==
    /\ at \notin mt!Nodes(tree)
    /\ more > 0 /\ more' = more - 1
    /\ tree' = Inserted(which, tree, at, amount)
    /\ UNCHANGED which

RemovePoint(at) ==
    /\ at \in mt!Nodes(tree)
    /\ tree' = Removed(which, tree, at)
    /\ UNCHANGED <<which, more>>

\* The planner is erased (m_mt_resource_tree.clear, m_sched_point_tree.destroy).
ClearTree ==
    /\ tree' = mt!EmptyTree
    /\ UNCHANGED <<which, more>>

TreeNext ==
    \/ \E at \in PointTimes, amount \in Amounts : InsertPoint(at, amount)
    \/ \E at \in PointTimes : RemovePoint(at)
    \/ ClearTree

TreeSpec == TreeInit /\ [][TreeNext]_tvars

(***************************************************************************)
(* Properties.                                                              *)
(***************************************************************************)
Earliest(times) == IF times = {} THEN null ELSE Min(times)

\* The descents find, after any insertions and removals and with equal amounts
\* in any order, the earliest point with enough of the resource
\* (mintime_resource_tree_t::get_mintime, whose nodes know no more than the
\* least time that fix and leaf_inserted have left in them) and the state in
\* force at a time (scheduled_point_tree_t::get_state).
DescentsAgree ==
    IF which = "mt"
    THEN \A request \in 0 .. (Max(Amounts) + 1) :
            get_mintime(tree, request) = Earliest({n \in mt!Nodes(tree) : tree.key[n] >= request})
    ELSE \A at \in 0 .. (Max(PointTimes) + 1) :
            StateDescent(tree, at) =
                LET before == {n \in mt!Nodes(tree) : n <= at}
                IN  IF before = {} THEN null ELSE Max(before)

RECURSIVE Below(_)

\* The nodes of a subtree, in order.
Below(n) == IF n = null THEN << >>
            ELSE Below(tree.child[n][0]) \o <<n>> \o Below(tree.child[n][1])

RECURSIVE BlackHeights(_)

\* The numbers of black nodes on the ways down from a node.
BlackHeights(n) ==
    IF n = null THEN {0}
    ELSE {h + (IF n \in tree.red THEN 0 ELSE 1) :
            h \in BlackHeights(tree.child[n][0]) \cup BlackHeights(tree.child[n][1])}

\* Rebalancing loses no node and no order, links point both ways, the colours
\* keep the tree balanced (what dbg_verify checks in debug builds) and each node
\* of the min-time tree knows the least time below it exactly: the early exits
\* of fix leave no stale minimum behind.
TreeSound ==
    LET order == Below(tree.root)
        nodes == mt!Nodes(tree)
    IN  /\ ToSet(order) = nodes /\ Len(order) = Cardinality(nodes)
        /\ \A i, j \in DOMAIN order : i < j => tree.key[order[i]] <= tree.key[order[j]]
        /\ \A n \in nodes : LET p == tree.parent[n]
                            IN  IF p = null THEN tree.root = n ELSE n \in Range(tree.child[p])
        /\ tree.root \notin tree.red /\ Cardinality(BlackHeights(tree.root)) = 1
        /\ \A n \in tree.red : mt!NoRedChild(tree, n)
        /\ which = "mt" => \A n \in nodes : tree.min[n] = Min(ToSet(Below(n)))
=============================================================================
