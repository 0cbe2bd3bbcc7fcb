------------------------------ MODULE ReapiCli ------------------------------
(***************************************************************************)
(* The resource API for clients (resource/reapi/bindings/c++/               *)
(* reapi_cli_impl.hpp and the C binding): a resource_query_t owns a graph,  *)
(* a traverser, one writer and the tables of the jobs, and a client calls   *)
(* it.  A context is [g, w, jobs, allocations, reservations, params].  Time *)
(* does not pass in it: now is 0, and a job that is matched for a later     *)
(* time is a reservation.                                                   *)
(***************************************************************************)
EXTENDS ResourceReaders

(***************************************************************************)
(* Contexts.                                                                *)
(***************************************************************************)
CONSTANT DefaultFilters     \* "ALL:core,ALL:node"

\* What the options do not say.
set_resource_ctx_params(options) ==
    LET default == [ load_format    |-> "grug",
                     matcher_policy |-> "first",
                     match_format   |-> "jgf",
                     prune_filters  |-> DefaultFilters ]
    IN  [p \in DOMAIN default |-> IF p \in DOMAIN options THEN options[p] ELSE default[p]]

\* A fresh matcher, traverser and writer on a graph.
initialize_matchers_and_traversers(q) ==
    LET mt == set_pruning_types_w_spec(create_match_cb(q.params.matcher_policy),
                                       q.params.prune_filters)
    IN  [q EXCEPT !.g = initialize([@ EXCEPT !.match = mt]),
                  !.w = create(q.params.match_format)]

resource_query_new(rgraph, options) ==
    LET params == set_resource_ctx_params(options)
        empty  == EmptyGraph(create_match_cb(params.matcher_policy))
    IN  initialize_matchers_and_traversers(
            [g |-> load(empty, rgraph, params.load_format), w |-> create("simple"), jobs |-> NoSpans,
             allocations |-> {}, reservations |-> {}, params |-> params])

\* The planners of a vertex, copied with schedule_t and pool_infra_t.
CopyVertex(x) ==
    [x EXCEPT !.plans     = planner_copy(@),
              !.x_checker = planner_copy(@),
              !.subplan   = IF @ = NoPlan THEN @ ELSE planner_multi_copy(@)]

\* The points of the root's filter, which proposes the times of reservations, if
\* it is copied with points set aside by an iteration.  They are in the copy's
\* min-time tree, and the copy's next call inserts them there again: that cuts
\* off some part of the tree, whichever it is.
MayBeLost(g) ==
    LET plan == g.vtx[Root].subplan
    IN  IF plan = NoPlan THEN {}
        ELSE IF get_planner_at(plan, 1).tracked = {} THEN {} ELSE Times(get_planner_at(plan, 1))

\* restore_track_points on such a copy, done at once: every call that looks at
\* the tree begins with it.
LosePoints(g, lost) ==
    IF MayBeLost(g) = {} THEN g
    ELSE SetSubplan(g, SetPlanner(g.vtx[Root].subplan, 1,
             [get_planner_at(g.vtx[Root].subplan, 1)
                EXCEPT !.mintime = Restrict(@, DOMAIN @ \ lost), !.tracked = {}]))

\* reapi_cli_clone: the graph with all it has planned, and the tables.
resource_query_copy(q, lost) ==
    initialize_matchers_and_traversers(
        [q EXCEPT !.g = LosePoints([@ EXCEPT !.vtx = [v \in Vertex |-> CopyVertex(@[v])]],
                                   lost)])

(***************************************************************************)
(* Calls: each returns the context and what the caller sees.                *)
(***************************************************************************)
\* Anything but "not now" and "never" returns at once.
Returns(err) == err \notin {"", "EBUSY", "ENODEV"}

OnlyAsks(op) == op \in {"MATCH_SATISFIABILITY", "MATCH_WITHOUT_ALLOCATING",
                            "MATCH_WITHOUT_ALLOCATING_FUTURE"}

set_job(q, jobid, state, at) ==
    [q EXCEPT !.jobs = With(@, jobid, [state |-> state, at |-> at])]

match_allocate(q, spec, op, jobid) ==
    LET r == run(q.g, spec, op, jobid, 0)
        w == IF r.err = "" THEN write(q.w, r.R) ELSE q.w
        e == emit(w, r.at, r.at + r.duration)
        matched == r.err = "" /\ ~OnlyAsks(op)
        reserved == matched /\ r.at # 0
        tried == [q EXCEPT !.g = r.g, !.w = e.w]
        tabled == [set_job(tried, jobid, IF reserved THEN "RESERVED" ELSE "ALLOCATED", r.at)
                     EXCEPT !.reservations = IF reserved THEN @ \cup {jobid} ELSE @,
                            !.allocations  = IF reserved THEN @ ELSE @ \cup {jobid}]
    IN  IF Returns(r.err) THEN [q |-> [q EXCEPT !.g = r.g], err |-> r.err, r |-> r, R |-> NoR]
        ELSE IF ~e.ok THEN [q |-> [q EXCEPT !.g = r.g, !.w = e.w], err |-> "EMIT", r |-> r,
                            R |-> NoR]
        ELSE [q |-> IF matched THEN tabled ELSE tried, err |-> r.err, r |-> r, R |-> e.R]

\* Without an expiration the job is taken to run for ever, which the planner
\* clips to its own end.
update_allocate(q, jobid, R) ==
    LET duration == IF R.expiration > R.starttime THEN R.expiration - R.starttime ELSE GraphEnd
        r == run_R(q.g, R, reader_name_from_writer(R), jobid, R.starttime, duration)
        e == emit(write(q.w, r.R), R.starttime, R.starttime + duration)
    IN  IF ~R.some \/ jobid \in q.allocations \cup q.reservations THEN [q |-> q, ok |-> FALSE]
        ELSE IF ~r.ok THEN [q |-> [q EXCEPT !.g = r.g], ok |-> FALSE]
        ELSE IF ~e.ok THEN [q |-> [q EXCEPT !.g = r.g, !.w = e.w], ok |-> FALSE]
        ELSE [q |-> [set_job([q EXCEPT !.g = r.g, !.w = e.w], jobid, "ALLOCATED", R.starttime)
                       EXCEPT !.allocations = @ \cup {jobid}],
              ok |-> TRUE]

Canceled(q, jobid) ==
    [q EXCEPT !.jobs = IF jobid \in DOMAIN @ THEN [@ EXCEPT ![jobid].state = "CANCELED"] ELSE @]

remove_job(q, jobid) ==
    LET r == remove(q.g, jobid)
        left == [q EXCEPT !.g = r.g]
    IN  [q |-> IF r.ok THEN Canceled(left, jobid) ELSE left, ok |-> r.ok]

\* Part of a job, or all that is left of it.
remove_job_R(q, jobid, R) ==
    LET r == remove_R(q.g, R, reader_name_from_writer(R), jobid)
        left == [q EXCEPT !.g = r.g]
    IN  [q |-> IF r.ok /\ r.full THEN Canceled(left, jobid) ELSE left, ok |-> r.ok, full |-> r.full]

\* A job that could not be removed stays in the tables.
cancel(q, jobid) ==
    LET r == remove_job(q, jobid)
    IN  IF jobid \notin q.allocations \cup q.reservations THEN [q |-> q, ok |-> FALSE]
        ELSE IF ~r.ok THEN r
        ELSE [r EXCEPT !.q.allocations  = @ \ {jobid},
                       !.q.reservations = IF jobid \in q.allocations THEN @ ELSE @ \ {jobid}]

\* A job is released in parts; only allocations are looked up.
cancel_R(q, jobid, R) ==
    LET r == remove_job_R(q, jobid, R)
    IN  IF jobid \notin q.allocations THEN [q |-> q, ok |-> FALSE, full |-> FALSE]
        ELSE [r EXCEPT !.q.allocations = IF r.ok /\ r.full THEN @ \ {jobid} ELSE @]

\* dom_find_dfv: what is found and all above it, as exclusive.
FoundEvents(g, vs) ==
    LET found == {v \in g.present : Subtree(g, v) \cap vs # {}}
        visit[n \in 0 .. Cardinality(Vertex)] ==
          [v \in Vertex |->
            IF v \notin found THEN << >>
            ELSE FlattenSeq([i \in DOMAIN Children(g, v) |->
                    LET c == Children(g, v)[i]
                    IN  IF n > 0 /\ c \in found THEN visit[n - 1][c] \o emit_edg(c, FALSE)
                        ELSE << >>])
                 \o emit_vtx(v, Size[v], TRUE, FALSE)]
    IN  visit[Cardinality(Vertex)][Root]

\* With a format of its own, or with the writer of the jobs.
find(q, vs, own) ==
    LET e == emit(write(q.w, FoundEvents(q.g, vs)), 0, 0)
    IN  IF own THEN q ELSE [q EXCEPT !.w = e.w]

set_status(q, v, up) == [q EXCEPT !.g = mark_path(@, v, up)]

parse_ranks(g, ranks) == IF ranks = "all" THEN {Rank[v] : v \in g.present} \ {-1} ELSE ranks

set_rank_status(q, ranks, up) == [q EXCEPT !.g = mark_ranks(@, parse_ranks(q.g, ranks), up)]

\* The JGF reader adds what is not there yet; its nodes are not counted.
add_subgraph(q, R_subgraph) ==
    LET r == jgf_unpack(q.g, R_subgraph)
    IN  [q EXCEPT !.g = IF r.ok THEN initialize(r.g) ELSE r.g]

remove_subgraph_at(q, v) == [q EXCEPT !.g = initialize(remove_subgraph(@, Subtree(@, v)))]
=============================================================================
