-------------------------- MODULE ResourceReaders --------------------------
(***************************************************************************)
(* The readers (resource/readers): jgf and its shorthand, and rv1exec.  A   *)
(* reader creates the graph, and reads a job's R: it plans the vertices of  *)
(* R itself and marks the edges, then the traverser follows the marks and   *)
(* updates the filters.  A reader also cancels part of a job.               *)
(*                                                                          *)
(* upd  [update, jobid, at, duration, reserved]: updater_data               *)
(* acc  [g, ok, ended, vmap, marks, root, updated, added, freed]: how far a *)
(*      reader has come; ended, that it leaves the vertices it has not yet  *)
(*      read, without an error; vmap has the JGF vertices, updated the ones *)
(*      rv1exec has planned, added the ones that were not in the graph      *)
(*      before, freed what a cancel has given back                          *)
(***************************************************************************)
EXTENDS MatchWriters

\* The writer's URI names the reader; without JGF there is R_lite only.
reader_name_from_writer(R) ==
    IF ~R.jgf THEN "rv1exec" ELSE IF R.shorthand THEN "jgf_shorthand" ELSE "jgf"

NoRoot == [set |-> FALSE, needs |-> 0, exclusive |-> FALSE]

Start(g) == [g |-> g, ok |-> TRUE, ended |-> FALSE, vmap |-> NoMarks, marks |-> NoMarks, root |-> NoRoot,
             updated |-> {}, added |-> {}, freed |-> NoSpans]

Stopped(acc) == [acc EXCEPT !.ok = FALSE]

\* Left by a jump past the error code, which says that all went well.
Ended(acc) == [acc EXCEPT !.ended = TRUE]

\* A vertex as both readers create it, with its planners.
create_vtx(g, v) == [g EXCEPT !.present = @ \cup {v}, !.vtx[v] = NewVertex(Size[v])]

\* Its edge goes into by_outedges with the weight it has.
add_metadata(g, v) == [g EXCEPT !.weight[v] = 0]

\* The span of a vertex, recorded for the job.
PlanVertex(g, v, upd) ==
    LET x == g.vtx[v]
        a == planner_add_span(x.plans, upd.at, upd.duration, Size[v])
        planned == [x EXCEPT !.plans = a.p]
    IN  IF a.id = -1 THEN [g |-> g, ok |-> FALSE]
        ELSE [ok |-> TRUE,
              g |-> SetVtx(g, v, IF upd.reserved
                                 THEN [planned EXCEPT !.reservations = With(@, upd.jobid, a.id)]
                                 ELSE [planned EXCEPT !.allocations = With(@, upd.jobid, a.id)])]

\* Undoes what PlanVertex did to the vertices that have a span of the job.
UndoVertices(g, vs, upd) ==
    [g EXCEPT !.vtx = [v \in Vertex |->
        LET x == @[v]
            mine == IF upd.reserved THEN x.reservations ELSE x.allocations
        IN  IF v \notin vs \/ upd.jobid \notin DOMAIN mine THEN x
            ELSE [x EXCEPT !.plans = planner_rem_span(@, mine[upd.jobid]).p,
                           !.allocations  = IF upd.reserved THEN @ ELSE Without(@, upd.jobid),
                           !.reservations = IF upd.reserved THEN Without(@, upd.jobid) ELSE @]]]

(***************************************************************************)
(* JGF.                                                                     *)
(***************************************************************************)
\* Whether R comes with ranks that were freed; they are passed over.
fetch_jgf(R) == R.free_ranks # {}

vtx_in_graph(g, v) == v \in g.present

update_vmap(acc, v, size, exclusive) ==
    [acc EXCEPT !.vmap = With(@, v, [needs |-> size, exclusive |-> exclusive])]

add_vtx(acc, v) ==
    [update_vmap(acc, v, Size[v], FALSE) EXCEPT !.g = create_vtx(@, v), !.added = @ \cup {v}]

\* What is in the graph already is only taken note of; twice is an error.
unpack_vertices(g, nodes) ==
    FoldLeft(LAMBDA acc, n :
               IF ~acc.ok \/ n.v \in DOMAIN acc.vmap THEN Stopped(acc)
               ELSE IF vtx_in_graph(acc.g, n.v) THEN update_vmap(acc, n.v, n.size, n.exclusive)
               ELSE add_vtx(acc, n.v),
             Start(g), nodes)

\* An edge whose ends are not both known is an error, unless ranks were freed.
unpack_edge(acc, v, isect_ranks) ==
    IF {v, Parent[v]} \subseteq DOMAIN acc.vmap THEN "known"
    ELSE IF isect_ranks THEN "skipped" ELSE "error"

\* An edge between two vertices that were there before is there already.
unpack_edges(acc, edges) ==
    FoldLeft(LAMBDA a, v :
               IF ~a.ok \/ unpack_edge(a, v, FALSE) # "known" THEN Stopped(a)
               ELSE IF {v, Parent[v]} \cap a.added = {} THEN a
               ELSE [a EXCEPT !.g = add_metadata(@, v)],
             acc, edges)

\* Loads a graph or adds a subgraph; what was added before an error stays.
jgf_unpack(g, R) ==
    LET v == unpack_vertices(g, R.nodes)
    IN  IF v.ok THEN unpack_edges(v, R.edges) ELSE v

\* The vertex is there, for the first time and as large as the graph has it.
find_vtx(acc, n) == n.v \in acc.g.present /\ n.v \notin DOMAIN acc.vmap /\ n.size = Size[n.v]

\* An exclusive vertex is planned; a shared one must be free of exclusive jobs.
update_vtx_plan(g, n, upd) ==
    LET avail == planner_avail_resources_during(g.vtx[n.v].plans, upd.at, upd.duration)
    IN  IF avail = -1 THEN [g |-> g, ok |-> FALSE]
        ELSE IF n.exclusive THEN PlanVertex(g, n.v, upd)
        ELSE [g |-> g, ok |-> avail >= Size[n.v]]

\* Takes a job off one vertex; each step may fail and leaves the ones before.
cancel_vtx(acc, v, jobid) ==
    LET x  == acc.g.vtx[v]
        f  == planner_multi_rem_span(x.subplan, x.job2span[jobid])
        x1 == IF jobid \notin DOMAIN x.job2span THEN x
              ELSE [x EXCEPT !.subplan = f.m, !.job2span = IF f.ok THEN Without(@, jobid) ELSE @]
        x2 == [x1 EXCEPT !.tags = @ \ {jobid}, !.x_spans = Without(@, jobid),
                         !.x_checker = planner_rem_span(@, x1.x_spans[jobid]).p]
        n  == planner_span_resource_count(x.plans, x.allocations[jobid])
        x3 == [x2 EXCEPT !.allocations = Without(@, jobid),
                         !.plans = planner_rem_span(@, x.allocations[jobid]).p]
        at(y) == [acc EXCEPT !.g = SetVtx(@, v, y)]
    IN  IF jobid \in DOMAIN x.job2span /\ (x.subplan = NoPlan \/ ~f.ok) THEN Stopped(at(x1))
        ELSE IF jobid \notin DOMAIN x1.x_spans THEN Stopped(at(x1))
        ELSE IF jobid \notin DOMAIN x.allocations THEN Stopped(at(x2))
        ELSE [at(x3) EXCEPT !.freed = AddCount(@, v, n)]

\* One vertex of R: planned for an update, cancelled otherwise.  The ranks
\* that have been released already are passed over.
update_vtx(acc, n, R, upd, cancel) ==
    LET known == update_vmap(acc, n.v, n.size, n.exclusive)
        p == update_vtx_plan(acc.g, n, upd)
    IN  IF ~acc.ok \/ ~find_vtx(acc, n) THEN Stopped(acc)
        ELSE IF Rank[n.v] \in R.free_ranks THEN acc
        ELSE IF cancel THEN cancel_vtx(known, n.v, upd.jobid)
        ELSE [known EXCEPT !.g = p.g, !.ok = p.ok]


\* What shorthand has left out: everything under an exclusive vertex.
fetch_additional_vertices(g, n, R) ==
    IF ~R.shorthand \/ ~n.exclusive THEN << >>
    ELSE LET below == SetToSortSeq(Subtree(g, n.v) \ {n.v}, <)
         IN  [i \in DOMAIN below |-> [v |-> below[i], size |-> Size[below[i]], exclusive |-> TRUE]]

\* The edges of one source: the root, if R has it, has a virtual edge of its own.
update_src_edge(acc, v) ==
    IF v # Root \/ v \notin DOMAIN acc.vmap THEN acc
    ELSE [acc EXCEPT !.root = [set |-> TRUE, needs |-> acc.vmap[v].needs,
                               exclusive |-> acc.vmap[v].exclusive]]

update_tgt_edge(acc, v) == [acc EXCEPT !.marks = With(@, v, acc.vmap[v])]

\* One edge that shorthand has left out.  The vertices of a freed rank are not in
\* vmap; what the lookup inserts for them has no such edge.  (Nothing reads those
\* entries later: an edge of R starts above the vertices that were read.)
additional_edge(acc, source, v) ==
    IF acc.ended THEN acc
    ELSE IF {source, v} \subseteq DOMAIN acc.vmap
      THEN update_tgt_edge(update_src_edge(acc, source), v)
    ELSE Ended(update_src_edge(acc, source))

fetch_additional_edges(acc, n, more) ==
    FoldLeft(LAMBDA a, s : FoldLeft(LAMBDA b, v : additional_edge(b, s.v, v),
                                    a, Children(acc.g, s.v)),
             acc, IF more = << >> THEN << >> ELSE <<n>> \o more)

\* An error in the edges shorthand has left out ends the reading and is not
\* reported: after a node on a freed rank nothing of R is read any more.
update_vertices(g, R, upd, cancel) ==
    FoldLeft(LAMBDA acc, n :
               LET more == fetch_additional_vertices(acc.g, n, R)
                   all  == FoldLeft(LAMBDA a, m : update_vtx(a, m, R, upd, cancel),
                                    update_vtx(acc, n, R, upd, cancel), more)
               IN  IF ~acc.ok \/ acc.ended THEN acc
                   ELSE IF all.ok THEN fetch_additional_edges(all, n, more) ELSE all,
             Start(g), R.nodes)

update_edges(acc, R) ==
    FoldLeft(LAMBDA a, v :
               CASE ~a.ok \/ unpack_edge(a, v, fetch_jgf(R)) = "error" -> Stopped(a)
                 [] unpack_edge(a, v, fetch_jgf(R)) = "skipped" -> a
                 [] OTHER -> update_tgt_edge(update_src_edge(a, Parent[v]), v),
             acc, R.edges)

\* A vertex that fails undoes the vertices; an edge that fails does not.
jgf_update(g, R, upd) ==
    LET v == update_vertices(g, R, upd, FALSE)
        x == {u \in DOMAIN v.vmap : v.vmap[u].exclusive}
    IN  IF upd.at < 0 \/ upd.duration = 0 THEN Stopped(Start(g))
        ELSE IF ~v.ok THEN [v EXCEPT !.g = UndoVertices(@, x, upd)]
        ELSE update_edges(v, R)

\* The root of each rank that had vertices cancelled.
CancelRoots(acc) ==
    [k \in DOMAIN acc.freed |->
        CHOOSE v \in DOMAIN acc.vmap : Rank[v] = k /\ \A w \in DOMAIN acc.vmap :
            Rank[w] = k => Cardinality(Ancestors(v)) <= Cardinality(Ancestors(w))]

jgf_partial_cancel(g, R, jobid) ==
    update_vertices(g, R, [update |-> FALSE, jobid |-> jobid, at |-> 0, duration |-> 1,
                           reserved |-> FALSE], TRUE)

(***************************************************************************)
(* rv1exec.                                                                 *)
(***************************************************************************)
\* The vertices that would have the path its parent and its name make: a node
\* is named by the host of its rank, its children by their types and ids.
NodePath(rank) == {v \in Vertex \ {Root} : Parent[v] = Root /\ Type[v] = NodeType /\ Rank[v] = rank}

ChildPath(node, c) ==
    {v \in Vertex \ {Root} : Parent[v] = node /\ Type[v] = c[1] /\ Id[v] = c[2]}

\* rv1exec knows resources of size 1 only.
find_vertex(g, path) == {v \in path \cap g.present : Size[v] = 1}

add_cluster_vertex(g) == create_vtx(g, Root)

add_vertex(acc, v) == [acc EXCEPT !.g = add_metadata(create_vtx(@, v), v), !.added = @ \cup {v}]

\* Free or an error; a node waits until its children are known.
update_vertex(acc, v, upd) ==
    LET avail == planner_avail_resources_during(acc.g.vtx[v].plans, upd.at, upd.duration)
        p == PlanVertex(acc.g, v, upd)
    IN  IF avail < Size[v] THEN Stopped(acc)
        ELSE IF Type[v] = NodeType THEN acc
        ELSE [acc EXCEPT !.g = p.g, !.ok = p.ok, !.updated = IF p.ok THEN @ \cup {v} ELSE @]

\* Every edge is taken to be exclusive.
update_edge(acc, v) == [acc EXCEPT !.marks = With(@, v, [needs |-> Size[v], exclusive |-> TRUE])]

\* To be added it must not be there, to be updated it must.
add_or_update(acc, path, upd) ==
    LET v == CHOOSE v \in path : TRUE
        u == update_vertex(acc, v, upd)
    IN  IF ~acc.ok \/ path = {} \/ (find_vertex(acc.g, path) # {}) # upd.update THEN Stopped(acc)
        ELSE IF ~upd.update THEN add_vertex(acc, v)
        ELSE IF u.ok THEN update_edge(u, v) ELSE u

\* A node all of whose resources have been planned is planned too.
update_exclusivity(acc, node, upd) ==
    LET mine == {v \in acc.updated : Rank[v] = Rank[node]}
        p == PlanVertex(acc.g, node, upd)
    IN  IF ~acc.ok \/ mine = {} THEN Stopped(acc)
        ELSE IF Cardinality(mine) # Cardinality(by_rank(acc.g, Rank[node])) - 1 THEN acc
        ELSE [acc EXCEPT !.g = p.g, !.ok = p.ok, !.updated = IF p.ok THEN @ \cup {node} ELSE @]

unpack_children(acc, node, children, upd) ==
    FoldLeft(LAMBDA a, c : add_or_update(a, ChildPath(node, c), upd),
             acc, SetToSeq(children))

unpack_rank(acc, entry, upd) ==
    LET parent == CHOOSE v \in NodePath(entry.rank) : TRUE
        n == add_or_update(acc, NodePath(entry.rank), upd)
        all == unpack_children(n, parent, entry.children, upd)
    IN  IF ~n.ok THEN n ELSE IF upd.update THEN update_exclusivity(all, parent, upd) ELSE all

\* The cluster is shared.
unpack_rlite(g, R, upd) ==
    FoldLeft(LAMBDA acc, entry : IF acc.ok THEN unpack_rank(acc, entry, upd) ELSE acc,
             [Start(g) EXCEPT !.root = [set |-> TRUE, needs |-> Size[Root], exclusive |-> FALSE]],
             SetToSeq(R.rlite))

rv1exec_unpack(g, R) == unpack_rlite(add_cluster_vertex(g), R, [update |-> FALSE])

rv1exec_update(g, R, upd) ==
    LET r == unpack_rlite(g, R, upd)
    IN  IF r.ok THEN r ELSE [r EXCEPT !.g = UndoVertices(@, r.updated, upd)]

partial_cancel_ranks(R) == {entry.rank : entry \in R.rlite}

(***************************************************************************)
(* The graph store's side.                                                  *)
(***************************************************************************)
\* resource_graph_db_t::load.
load(g, R, reader) ==
    initialize_node_stats(IF reader = "rv1exec" THEN rv1exec_unpack(g, R).g ELSE jgf_unpack(g, R).g)

(***************************************************************************)
(* The traverser's side: run and remove with an R.                          *)
(***************************************************************************)
\* dfu_traverser_t::run for an R.  Without a mark on the root the reader's
\* work is all there is.
run_R(g, R, reader, jobid, at, duration) ==
    LET upd == [update |-> TRUE, jobid |-> jobid, at |-> at, duration |-> duration,
                reserved |-> FALSE]
        r == IF reader = "rv1exec" THEN rv1exec_update(g, R, upd) ELSE jgf_update(g, R, upd)
        meta == [jobid |-> jobid, at |-> at, now |-> -1, duration |-> duration,
                 alloc_type |-> "AT_ALLOC", constraint |-> NoConstraint]
        u == update(r.g, meta, [marks |-> r.marks, needs |-> r.root.needs,
                                exclusive |-> r.root.exclusive], FALSE)
    IN  IF at < 0 THEN [g |-> g, ok |-> FALSE, R |-> << >>]
        ELSE IF ~r.ok THEN [g |-> r.g, ok |-> FALSE, R |-> << >>]
        ELSE IF ~r.root.set THEN [g |-> r.g, ok |-> TRUE, R |-> << >>]
        ELSE u

\* dfu_traverser_t::remove for an R.
remove_R(g, R, reader, jobid) ==
    LET c == jgf_partial_cancel(g, R, jobid)
    IN  IF reader = "rv1exec" THEN remove_ranks_of_job(g, partial_cancel_ranks(R), jobid)
        ELSE IF ~c.ok THEN [g |-> c.g, ok |-> FALSE, full |-> FALSE]
        ELSE finish_partial_cancel(c.g, CancelRoots(c), c.freed, jobid)
=============================================================================
