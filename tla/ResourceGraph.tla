--------------------------- MODULE ResourceGraph ---------------------------
(***************************************************************************)
(* The resource graph store (resource/schema, resource/store) in its        *)
(* containment subsystem: a tree of resource vertices, what each keeps for  *)
(* scheduling and for the traverser, and the metadata of the whole.         *)
(*                                                                          *)
(* vtx       vertex -> its data                                             *)
(* present   the vertices in the graph; an edge is named by its target      *)
(* nodes_up  the count of nodes that are up                                 *)
(* weight    edge -> its weight in by_outedges, the order of a traversal    *)
(* match     the matcher (see Matcher)                                      *)
(***************************************************************************)
EXTENDS PlannerMulti, Matcher

CONSTANTS
    Vertex,         \* the vertices, as numbers in the order of their creation
    Root,           \* the root of the containment tree
    Parent,         \* vertex -> its parent
    Type, Size,     \* vertex -> its resource type and size
    Rank,           \* vertex -> the broker rank it belongs to, -1 for none
    Id,             \* vertex -> its logical id, from which policies score
    ClusterType,    \* the type of the root
    PlanEnd,        \* duration of the planners of the graph
    XJobs           \* X_CHECKER_NJOBS, more than the jobs there can be

ASSUME GraphAssumption ==
    /\ Vertex \subseteq Nat /\ Root \in Vertex
    /\ Parent \in [Vertex \ {Root} -> Vertex] /\ \A v \in Vertex \ {Root} : Parent[v] < v
    /\ Type \in [Vertex -> Range(TypeOrder)] /\ Size \in [Vertex -> Nat \ {0}]
    /\ Rank \in [Vertex -> Int] /\ Id \in [Vertex -> Nat]
    /\ PlanEnd \in Nat \ {0} /\ XJobs \in Nat

NoPlan == <<>>

NoSpans == [j \in {} |-> 0]

\* resource_pool_t with its schedule_t and its pool_infra_t, as a reader
\* creates them.
NewVertex(size) ==
    [ up           |-> TRUE,
      plans        |-> planner_new(0, PlanEnd, size),
      allocations  |-> NoSpans,
      reservations |-> NoSpans,
      tags         |-> {},
      x_checker    |-> planner_new(0, PlanEnd, XJobs),
      x_spans      |-> NoSpans,
      subplan      |-> NoPlan,
      job2span     |-> NoSpans ]

With(f, k, x) == [i \in DOMAIN f \cup {k} |-> IF i = k THEN x ELSE f[i]]

Without(f, k) == Restrict(f, DOMAIN f \ {k})

(***************************************************************************)
(* The tree.                                                                *)
(***************************************************************************)
ChildSet(g, u) == {v \in g.present \ {Root} : Parent[v] = u}

\* out_edges, in the order of their creation.
Children(g, u) == SetToSortSeq(ChildSet(g, u), <)

\* The out-edges as by_outedges has them: heaviest first.
ByWeight(g, u) ==
    SetToSortSeq(ChildSet(g, u),
                 LAMBDA v, w : \/ g.weight[v] > g.weight[w]
                               \/ g.weight[v] = g.weight[w] /\ v > w)

\* get_parent_vtx, up to the root.
Ancestors(v) ==
    LET up[n \in 0 .. Cardinality(Vertex)] ==
          IF n = 0 THEN {v}
          ELSE up[n - 1] \cup {Parent[w] : w \in up[n - 1] \ {Root}}
    IN  up[Cardinality(Vertex)] \ {v}

Subtree(g, v) == {w \in g.present : w = v \/ v \in Ancestors(w)}

by_rank(g, rank) == {v \in g.present : Rank[v] = rank}

\* The vertex of a rank with the shortest path.
RankRoot(g, rank) ==
    CHOOSE v \in by_rank(g, rank) : \A w \in by_rank(g, rank) :
        Cardinality(Ancestors(v)) <= Cardinality(Ancestors(w))

Nodes(g) == {v \in g.present : Type[v] = NodeType}

(***************************************************************************)
(* Node counts.                                                             *)
(***************************************************************************)
update_node_stats(g, count, up) ==
    [g EXCEPT !.nodes_up = IF up THEN @ + count ELSE @ - count]

\* Adds every node of the graph to the count, the ones already counted too.
initialize_node_stats(g) ==
    [g EXCEPT !.nodes_up = @ + Cardinality({v \in Nodes(g) : g.vtx[v].up})
                             - Cardinality({v \in Nodes(g) : ~g.vtx[v].up})]

EmptyGraph(matcher) ==
    [ vtx      |-> [v \in Vertex |-> NewVertex(Size[v])],
      present  |-> {},
      nodes_up |-> 0,
      weight   |-> [v \in Vertex |-> 0],
      match    |-> matcher ]
=============================================================================
