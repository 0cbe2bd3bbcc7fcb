-------------------------- MODULE TraverserUpdate --------------------------
(***************************************************************************)
(* Updates of the resource graph by the traverser                           *)
(* (resource/traversers/dfu_impl_update.cpp): spans added for what has been *)
(* selected, removed in full or in part, status marks, and subgraphs taken  *)
(* out.  Errors in the middle of an update are swallowed as in the code.    *)
(***************************************************************************)
EXTENDS TraverserSelect

SetVtx(g, u, x) == [g EXCEPT !.vtx[u] = x]

(***************************************************************************)
(* Priming the pruning filters.                                             *)
(***************************************************************************)
\* The filter of a vertex is created, or updated to the new totals.
PrimeVertex(g, u, dfv) ==
    LET types  == get_my_pruning_types(g.match, Type[u])
        totals == [t \in ToSet(types) |-> CountOf(dfv, t)]
        plan   == g.vtx[u].subplan
    IN  IF types = << >> THEN g
        ELSE [g EXCEPT !.vtx[u].subplan =
                IF plan = NoPlan THEN planner_multi_new(0, PlanEnd, types, totals)
                ELSE planner_multi_update(plan, types, totals)]

\* dfv is what the subtree has to offer to its parent's filter.  A leaf of a
\* type that no filter counts is counted from then on, at the cluster.
RECURSIVE prime_pruning_filter(_, _, _)
prime_pruning_filter(g, u, to_parent) ==
    LET own  == accum_if(g.match, Type[u], Size[u], to_parent)
        leaf == set_pruning_type(g.match, ClusterType, Type[u])
        exp  == FoldLeft(LAMBDA acc, v : prime_pruning_filter(acc.g, v, acc.dfv),
                         [g |-> g, dfv |-> NoCounts], Children(g, u))
    IN  IF ChildSet(g, u) = {}
        THEN IF is_pruning_type(g.match, Type[u]) THEN [g |-> g, dfv |-> own]
             ELSE [g |-> [g EXCEPT !.match = leaf], dfv |-> accum_if(leaf, Type[u], Size[u], own)]
        ELSE [g |-> PrimeVertex(exp.g, u, exp.dfv), dfv |-> AccumAll(exp.g.match, exp.dfv, own)]

initialize(g) == prime_pruning_filter(g, Root, NoCounts).g

(***************************************************************************)
(* Adding the spans of a selection.                                         *)
(***************************************************************************)
\* Tag and exclusive checker: on the vertex and all of its ancestors.
upd_txfilter(x, meta) ==
    LET a == planner_add_span(x.x_checker, meta.at, meta.duration, 1)
        tagged == [x EXCEPT !.tags = @ \cup {meta.jobid}]
    IN  IF a.id = -1 THEN [x |-> tagged, ok |-> FALSE]
        ELSE [x |-> [tagged EXCEPT !.x_checker = a.p, !.x_spans = With(@, meta.jobid, a.id)],
              ok |-> TRUE]

upd_agfilter(x, meta, dfu) ==
    LET a == planner_multi_add_span(x.subplan, meta.at, meta.duration,
                                    count_relevant_types(x.subplan, dfu))
    IN  IF x.subplan = NoPlan \/ dfu = NoCounts THEN [x |-> x, ok |-> TRUE]
        ELSE IF a.id = -1 THEN [x |-> [x EXCEPT !.subplan = a.m], ok |-> FALSE]
        ELSE [x |-> [x EXCEPT !.subplan = a.m, !.job2span = With(@, meta.jobid, a.id)],
              ok |-> TRUE]

upd_idata(x, meta, dfu) ==
    LET a == upd_txfilter(x, meta)
    IN  IF a.ok THEN upd_agfilter(a.x, meta, dfu) ELSE a

\* The span on the vertex's own plan; without full, a reader has made it.
upd_plan(x, needs, excl, meta, full) ==
    LET a == planner_add_span(x.plans, meta.at, meta.duration, needs)
        planned == [x EXCEPT !.plans = a.p]
    IN  IF ~excl \/ ~full THEN [x |-> x, ok |-> TRUE]
        ELSE IF a.id = -1 THEN [x |-> x, ok |-> FALSE]
        ELSE [x  |-> IF meta.alloc_type = "AT_ALLOC"
                       THEN [planned EXCEPT !.allocations = With(@, meta.jobid, a.id)]
                     ELSE [planned EXCEPT !.reservations = With(@, meta.jobid, a.id)],
              ok |-> TRUE]


accum_to_parent(g, u, needs, excl, dfu, to_parent) ==
    AccumAll(g.match, dfu,
             accum_if(g.match, Type[u], IF excl THEN Size[u] ELSE Size[u] - needs, to_parent))

\* n counts the exclusive vertices at or under u; an error skips what follows
\* it on this vertex, and the count is returned as if nothing had happened.
\* emit: whether the vertex is written to the job's R.
upd_sched(g, u, needs, excl, n, meta, full, dfu, to_parent) ==
    LET n1 == IF excl THEN n + 1 ELSE n
        p  == upd_plan(g.vtx[u], needs, excl, meta, full)
        i  == upd_idata(p.x, meta, dfu)
    IN  CASE meta.alloc_type = "AT_NO_ALLOC" ->
               [g |-> g, n |-> n1, dfv |-> to_parent, emit |-> n1 > 0]
          [] meta.alloc_type # "AT_NO_ALLOC" /\ (~p.ok \/ n1 = 0) ->
               [g |-> SetVtx(g, u, p.x), n |-> n1, dfv |-> to_parent, emit |-> FALSE]
          [] OTHER ->
               [g   |-> SetVtx(g, u, i.x), n |-> n1, emit |-> i.ok,
                dfv |-> IF ~i.ok THEN to_parent
                        ELSE accum_to_parent(g, u, needs, excl, dfu, to_parent)]

\* The weight of an edge is what its target's filter has now of its last type.
upd_by_outedges(g, meta, v) ==
    LET plan == g.vtx[v].subplan
        last == get_planner_at(plan, Len(plan.types))
        avail == planner_avail_resources_at(last, meta.now)
    IN  IF plan = NoPlan \/ (avail = 0 /\ plan.spans = NoSpans) THEN g
        ELSE [g EXCEPT !.weight[v] = IF avail = -1 THEN 0 ELSE avail]

\* A vertex of an exclusive type takes everything under it along.
modify_traversal(g, u, emit_shadow) ==
    emit_shadow \/ is_resource_type_exclusive(g.match, Type[u])

\* What the writers are told: an edge by its target, or a vertex.
emit_edg(v, excl) ==
    <<[edge |-> TRUE, v |-> v, needs |-> 0, exclusive |-> FALSE, excl_parent |-> excl]>>

emit_vtx(u, needs, excl, excl_parent) ==
    <<[edge |-> FALSE, v |-> u, needs |-> needs, exclusive |-> excl, excl_parent |-> excl_parent]>>

RECURSIVE upd_dfv(_, _, _, _, _, _, _, _, _, _)
upd_dfv(g, u, needs, excl_in, meta, full, marks, to_parent, emit_shadow, excl_parent) ==
    LET mod  == modify_traversal(g, u, emit_shadow)
        excl == excl_in \/ mod
        child(acc, v) ==
          IF v \notin DOMAIN marks /\ ~mod THEN acc
          ELSE LET x == (v \in DOMAIN marks /\ marks[v].exclusive) \/ mod
                   k == IF mod THEN Size[v] ELSE marks[v].needs
                   r == upd_dfv(acc.g, v, k, x, meta, full, marks, acc.dfv, mod, excl)
               IN  [g |-> IF r.n > 0 /\ g.match.stop_on_k > 0
                            THEN upd_by_outedges(r.g, meta, v) ELSE r.g,
                    n |-> acc.n + r.n, dfv |-> r.dfv,
                    emitted |-> acc.emitted \o r.emitted
                                  \o (IF r.n > 0 THEN emit_edg(v, excl) ELSE << >>)]
        below == FoldLeft(child, [g |-> g, n |-> 0, dfv |-> NoCounts, emitted |-> << >>],
                          Children(g, u))
        s == upd_sched(below.g, u, needs, excl, below.n, meta, full, below.dfv, to_parent)
    IN  [g |-> s.g, n |-> s.n, dfv |-> s.dfv,
         emitted |-> below.emitted
                       \o (IF s.emit THEN emit_vtx(u, needs, excl, excl_parent) ELSE << >>)]

\* update: the spans of a selection, and what is written to the R of the job.
update(g, meta, sel, full) ==
    LET r == upd_dfv(g, Root, sel.needs, sel.exclusive, meta, full, sel.marks, NoCounts,
                     modify_traversal(g, Root, FALSE), FALSE)
    IN  [g |-> r.g, ok |-> r.n > 0, R |-> r.emitted]

(***************************************************************************)
(* Removing spans.  mod_type: CANCEL, VTX_CANCEL or PARTIAL_CANCEL.         *)
(***************************************************************************)
rem_exclusive_filter(x, jobid, mod_type) ==
    IF jobid \notin DOMAIN x.x_spans THEN [x |-> x, ok |-> mod_type # "VTX_CANCEL"]
    ELSE LET r == planner_rem_span(x.x_checker, x.x_spans[jobid])
         IN  [x |-> [x EXCEPT !.x_checker = r.p, !.x_spans = Without(@, jobid)], ok |-> r.ok]

\* The aggregate filter; a partial cancel that empties it also takes the tag.
mod_agfilter(x, jobid, mod_type, counts) ==
    LET rem == planner_multi_rem_span(x.subplan, x.job2span[jobid])
        red == planner_multi_reduce_span(x.subplan, x.job2span[jobid], counts)
        reduced == [x EXCEPT !.subplan  = red.m,
                             !.job2span = IF red.removed THEN Without(@, jobid) ELSE @,
                             !.tags     = IF red.removed THEN @ \ {jobid} ELSE @]
        r == rem_exclusive_filter(reduced, jobid, mod_type)
    IN  IF x.subplan = NoPlan \/ jobid \notin DOMAIN x.job2span
          THEN [x |-> x, ok |-> TRUE, stop |-> x.subplan # NoPlan /\ mod_type = "PARTIAL_CANCEL"]
        ELSE IF mod_type # "PARTIAL_CANCEL"
          THEN IF rem.ok
               THEN [x |-> [x EXCEPT !.subplan = rem.m, !.job2span = Without(@, jobid)],
                     ok |-> TRUE, stop |-> FALSE]
               ELSE [x |-> [x EXCEPT !.subplan = rem.m], ok |-> FALSE, stop |-> FALSE]
        ELSE IF jobid \notin x.tags THEN [x |-> x, ok |-> TRUE, stop |-> TRUE]
        ELSE IF counts = NoCounts THEN [x |-> x, ok |-> FALSE, stop |-> FALSE]
        ELSE IF ~red.ok THEN [x |-> [x EXCEPT !.subplan = red.m], ok |-> FALSE, stop |-> FALSE]
        ELSE [x |-> r.x, ok |-> r.ok, stop |-> FALSE]

\* Tag and exclusive filter go first unless the cancel is partial.
mod_idata(x, jobid, mod_type, counts) ==
    LET r == rem_exclusive_filter([x EXCEPT !.tags = @ \ {jobid}], jobid, mod_type)
    IN  IF mod_type = "PARTIAL_CANCEL" THEN mod_agfilter(x, jobid, mod_type, counts)
        ELSE IF jobid \notin x.tags THEN [x |-> x, ok |-> TRUE, stop |-> TRUE]
        ELSE IF ~r.ok THEN [x |-> r.x, ok |-> FALSE, stop |-> FALSE]
        ELSE mod_agfilter(r.x, jobid, mod_type, counts)


\* freed: what a vertex cancel has given back, -1 when nothing was planned.  An
\* allocation is not touched by a partial cancel.
mod_plan(x, jobid, mod_type) ==
    LET alloc == jobid \in DOMAIN x.allocations
        span  == IF alloc THEN x.allocations[jobid] ELSE x.reservations[jobid]
        r     == planner_rem_span(x.plans, span)
    IN  IF \/ ~alloc /\ jobid \notin DOMAIN x.reservations
           \/ alloc /\ mod_type = "PARTIAL_CANCEL"
          THEN [x |-> x, ok |-> TRUE, freed |-> -1]
        ELSE LET x1 == [x EXCEPT !.allocations  = IF alloc THEN Without(@, jobid) ELSE @,
                                 !.reservations = IF alloc THEN @ ELSE Without(@, jobid)]
             IN  IF mod_type = "PARTIAL_CANCEL" THEN [x |-> x1, ok |-> FALSE, freed |-> -1]
                 ELSE [x |-> [x1 EXCEPT !.plans = r.p], ok |-> r.ok,
                       freed |-> planner_span_resource_count(x.plans, span)]

\* Depth first along the tags; an error at a vertex ends the visit there only.
RECURSIVE mod_dfv(_, _, _)
mod_dfv(g, u, jobid) ==
    LET i == mod_idata(g.vtx[u], jobid, "CANCEL", NoCounts)
        p == mod_plan(i.x, jobid, "CANCEL")
    IN  IF ~i.ok \/ i.stop THEN [g |-> SetVtx(g, u, i.x), ok |-> i.ok]
        ELSE IF ~p.ok THEN [g |-> SetVtx(g, u, p.x), ok |-> FALSE]
        ELSE FoldLeft(LAMBDA acc, v :
                        LET r == mod_dfv(acc.g, v, jobid)
                        IN  [g |-> r.g, ok |-> acc.ok /\ r.ok],
                      [g |-> SetVtx(g, u, p.x), ok |-> TRUE], Children(g, u))

\* Every vertex of the graph; the result is an error however it went.
mod_exv(g, jobid) ==
    [g  |-> [g EXCEPT !.vtx = [v \in Vertex |->
               IF v \in g.present THEN mod_plan(@[v], jobid, "CANCEL").x ELSE @[v]]],
     ok |-> FALSE]

remove(g, jobid) ==
    IF jobid \in g.vtx[Root].tags THEN mod_dfv(g, Root, jobid) ELSE mod_exv(g, jobid)

cancel_vertex(x, jobid, mod_type, counts) ==
    LET i == mod_idata(x, jobid, mod_type, counts)
        p == mod_plan(i.x, jobid, mod_type)
    IN  IF ~i.ok THEN [x |-> i.x, ok |-> FALSE, freed |-> -1] ELSE p

AddCount(freed, v, n) ==
    IF n = -1 THEN freed
    ELSE With(freed, Rank[v],
              LET old == IF Rank[v] \in DOMAIN freed THEN freed[Rank[v]] ELSE NoCounts
              IN  With(old, Type[v], CountOf(old, Type[v]) + n))

\* A sequence of vertex updates, given up at the first error; freed is by rank
\* and type.
UpdateEach(g, vs, upd(_, _)) ==
    FoldLeft(LAMBDA acc, v :
               IF ~acc.ok THEN acc
               ELSE LET r == upd(v, acc.g.vtx[v])
                    IN  [g |-> SetVtx(acc.g, v, r.x), ok |-> r.ok,
                         freed |-> AddCount(acc.freed, v, r.freed)],
             [g |-> g, ok |-> TRUE, freed |-> NoSpans], SetToSortSeq(vs, <))

\* What the ranks give back, added up for each vertex above their roots.
ParentCounts(roots, freed) ==
    [a \in UNION {Ancestors(roots[k]) : k \in DOMAIN roots} |->
        LET under == {k \in DOMAIN roots : a \in Ancestors(roots[k])}
        IN  [t \in UNION {DOMAIN freed[k] : k \in under} |->
               SumOver(LAMBDA k : CountOf(freed[k], t), under)]]

\* Reduces the filters above the ranks, given up at the first error.
ReduceAbove(g, counts, jobid) ==
    UpdateEach(g, DOMAIN counts,
               LAMBDA v, x : cancel_vertex(x, jobid, "PARTIAL_CANCEL", counts[v]))

\* The vertices of the ranks have been cancelled: the filters above follow.
\* full: nothing of the job is left.
finish_partial_cancel(g, roots, freed, jobid) ==
    LET p == ReduceAbove(g, ParentCounts(roots, freed), jobid)
    IN  IF DOMAIN roots = {} \/ ~(DOMAIN roots \subseteq DOMAIN freed)
          THEN [g |-> g, ok |-> FALSE, full |-> FALSE]
        ELSE IF jobid \notin g.vtx[Root].tags
          THEN [g |-> mod_exv(g, jobid).g, ok |-> FALSE, full |-> FALSE]
        ELSE [g |-> p.g, ok |-> p.ok, full |-> p.ok /\ jobid \notin p.g.vtx[Root].tags]

RankRoots(g, ranks) == [k \in ranks |-> RankRoot(g, k)]

\* The partial cancel by ranks (an R without JGF).
remove_ranks_of_job(g, ranks, jobid) ==
    LET mine == {v \in g.present : Rank[v] \in ranks /\ jobid \in g.vtx[v].tags}
        c == UpdateEach(g, mine, LAMBDA v, x : cancel_vertex(x, jobid, "VTX_CANCEL", NoCounts))
    IN  IF \E k \in ranks : by_rank(g, k) = {} THEN [g |-> g, ok |-> FALSE, full |-> FALSE]
        ELSE IF ~c.ok THEN [g |-> c.g, ok |-> FALSE, full |-> FALSE]
        ELSE finish_partial_cancel(c.g, RankRoots(g, ranks), c.freed, jobid)

\* Drops all that jobs hold of a vertex; its exclusive checker is left as it is.
clear_vertex(x) ==
    LET count == SumOver(LAMBDA j : planner_span_resource_count(x.plans, x.allocations[j]),
                         DOMAIN x.allocations)
    IN  [x |-> [x EXCEPT !.plans = planner_reset(@, 0, PlanEnd),
                         !.subplan = IF @ = NoPlan THEN @ ELSE planner_multi_reset(@, 0, PlanEnd),
                         !.tags = {}, !.x_spans = NoSpans, !.job2span = NoSpans,
                         !.allocations = NoSpans, !.reservations = NoSpans],
         ok |-> TRUE, freed |-> count]

\* All jobs off some ranks.  Each of them is taken to have given back all that
\* the ranks had.
remove_ranks(g, ranks) ==
    LET vs == {v \in g.present : Rank[v] \in ranks}
        jobids == UNION {g.vtx[v].tags : v \in vs}
        c == UpdateEach(g, vs, LAMBDA v, x : clear_vertex(x))
        counts == ParentCounts(RankRoots(g, ranks), c.freed)
        each(acc, j) == IF ~acc.ok THEN acc ELSE ReduceAbove(acc.g, counts, j)
    IN  IF \E k \in ranks : by_rank(g, k) = {} THEN [g |-> g, ok |-> FALSE]
        ELSE FoldLeft(each, [c EXCEPT !.ok = TRUE], SetToSortSeq(jobids, <))

(***************************************************************************)
(* Status and structure.                                                    *)
(***************************************************************************)
\* Marks the root of each rank; only changes are counted.
mark_ranks(g, ranks, up) ==
    LET roots == {RankRoot(g, k) : k \in {r \in ranks : by_rank(g, r) # {}}}
        changed == {v \in roots : g.vtx[v].up # up}
    IN  update_node_stats([g EXCEPT !.vtx = [v \in Vertex |->
            IF v \in changed THEN [@[v] EXCEPT !.up = up] ELSE @[v]]],
            Cardinality(changed), up)

\* Marks one vertex by its path and counts every node under it.
mark_path(g, v, up) ==
    IF g.vtx[v].up = up THEN g
    ELSE update_node_stats([g EXCEPT !.vtx[v].up = up],
            SumOver(LAMBDA w : Size[w], Nodes(g) \cap Subtree(g, v)), up)

\* The vertices lose their edges and leave the indexes; counts are not updated.
remove_subgraph(g, vs) == [g EXCEPT !.present = @ \ vs]
=============================================================================
