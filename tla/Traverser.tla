----------------------------- MODULE Traverser -----------------------------
(***************************************************************************)
(* The traverser's interface (resource/traversers/dfu.cpp): a jobspec is    *)
(* matched now, or at the first time a reservation is possible, and the     *)
(* graph is updated; error codes tell "not now" (EBUSY) from "never"        *)
(* (ENODEV).                                                                *)
(*                                                                          *)
(* A jobspec is a record [resources, duration, constraint].                 *)
(***************************************************************************)
EXTENDS TraverserUpdate

CONSTANT GraphEnd   \* the time at which the resources expire

ASSUME TraverserAssumption == GraphEnd \in Nat \ {0} /\ GraphEnd < PlanEnd

MatchOp ==
    {"MATCH_ALLOCATE", "MATCH_ALLOCATE_W_SATISFIABILITY", "MATCH_ALLOCATE_ORELSE_RESERVE",
     "MATCH_SATISFIABILITY", "MATCH_WITHOUT_ALLOCATING", "MATCH_WITHOUT_ALLOCATING_FUTURE"}

SetSubplan(g, plan) == [g EXCEPT !.vtx[Root].subplan = plan]

\* jobmeta_t::build; a duration of 0 stands for the rest of the graph's time.
build(spec, jobid, at) ==
    [ok   |-> spec.duration <= GraphEnd,
     meta |-> [jobid |-> jobid, at |-> at, now |-> at, alloc_type |-> "AT_ALLOC",
               duration |-> IF spec.duration = 0 THEN GraphEnd ELSE spec.duration,
               constraint |-> spec.constraint]]

\* The last time at which the job could run: nothing is planned there.
FarFuture(meta) == [meta EXCEPT !.at = PlanEnd - meta.duration - 1,
                                !.alloc_type = "AT_SATISFIABILITY"]

is_satisfiable(g, spec, meta, excl) == select(g, spec.resources, FarFuture(meta), excl).ok

\* A quick look at the nodes before the traversal: "" or the error.
request_feasible(g, meta, op, nodes) ==
    LET sat  == op = "MATCH_ALLOCATE_W_SATISFIABILITY"
        time == IF op \in {"MATCH_ALLOCATE", "MATCH_WITHOUT_ALLOCATING"} THEN meta.at
                ELSE GraphEnd - 1
        feasible == {v \in Nodes(g) : v \in meta.constraint /\ (sat \/ g.vtx[v].up) /\
                       planner_avail_resources_during(g.vtx[v].plans, time, meta.duration) = 1}
    IN  IF meta.constraint = NoConstraint /\ nodes <= g.nodes_up THEN ""
        ELSE IF nodes > g.nodes_up \/ Cardinality(feasible) < nodes
          THEN IF sat THEN "ENODEV" ELSE "EBUSY"
        ELSE ""

\* The planner proposes times and the traverser tries them, up to the first
\* that works; the planner is then already asked for one more.
RECURSIVE Seek(_, _, _, _, _)
Seek(plan, t, g, spec, meta) ==
    IF t = NoTime THEN [plan |-> plan, meta |-> meta, sel |-> NotSelected]
    ELSE LET m == [meta EXCEPT !.at = t]
             sel == select(g, spec.resources, m, exclusivity(spec.resources, Root))
             n == planner_multi_avail_time_next(plan)
         IN  IF sel.ok THEN [plan |-> n.m, meta |-> m, sel |-> sel]
             ELSE Seek(n.m, n.t, g, spec, m)

\* Why planner_multi_avail_time_first finds no time: EINVAL past the plan.
NoTimeError(plan, t) == IF t >= get_planner_at(plan, 1).end THEN "EINVAL" ELSE "ENOENT"

Unmatched(g, meta, err) == [g |-> g, meta |-> meta, sel |-> NotSelected, err |-> err]

schedule(g, spec, meta, op) ==
    LET excl == exclusivity(spec.resources, Root)
        dfv  == prime_jobspec(g.match, spec.resources)
        pre  == request_feasible(g, meta, op, CountOf(dfv, NodeType))
        now  == select(g, spec.resources, meta, excl)
        never == IF is_satisfiable(g, spec, meta, excl) THEN "EBUSY" ELSE "ENODEV"
        later == [meta EXCEPT !.alloc_type =
                    IF op = "MATCH_ALLOCATE_ORELSE_RESERVE" THEN "AT_ALLOC_ORELSE_RESERVE" ELSE @]
        plan  == g.vtx[Root].subplan
        first == planner_multi_avail_time_first(plan, meta.at + 1, meta.duration,
                                                count_relevant_types(plan, dfv))
        s     == Seek(first.m, first.t, g, spec, later)
    IN  IF pre # "" THEN Unmatched(g, meta, pre)
        ELSE IF now.ok THEN [g |-> g, meta |-> meta, sel |-> now, err |-> ""]
        ELSE CASE op = "MATCH_ALLOCATE_W_SATISFIABILITY" -> Unmatched(g, meta, never)
               [] op \in {"MATCH_ALLOCATE", "MATCH_WITHOUT_ALLOCATING"} ->
                    Unmatched(g, meta, "EBUSY")
               [] OTHER ->
                    IF s.sel.ok THEN [g |-> SetSubplan(g, s.plan), meta |-> s.meta,
                                      sel |-> s.sel, err |-> ""]
                    ELSE Unmatched(SetSubplan(g, s.plan), s.meta,
                           IF NoTimeError(plan, meta.at + 1) = "EINVAL" THEN "EINVAL" ELSE never)

\* Nothing for the match to write.
NoMatch(g, err) == [g |-> g, err |-> err, at |-> NoTime, duration |-> 0, R |-> << >>,
                    reserved |-> FALSE]

\* dfu_traverser_t::run for a jobspec.  The exclusive types of the jobspec are
\* the matcher's while it is matched.  A jobspec that build refuses leaves them.
run(g, spec, op, jobid, at) ==
    LET b   == build(spec, jobid, at)
        gx  == [g EXCEPT !.match =
                  add_exclusive_resource_types(@, ExclusiveTypes(spec.resources))]
        restored(h) == [h EXCEPT !.match =
                  reset_exclusive_resource_types(@, g.match.x_types)]
        meta == IF op \in {"MATCH_WITHOUT_ALLOCATING", "MATCH_WITHOUT_ALLOCATING_FUTURE"}
                  THEN [b.meta EXCEPT !.alloc_type = "AT_NO_ALLOC"] ELSE b.meta
        s   == schedule(gx, spec, meta, op)
        cut == IF s.meta.at + s.meta.duration > GraphEnd
                 THEN [s.meta EXCEPT !.duration = GraphEnd - s.meta.at] ELSE s.meta
        u   == update(s.g, cut, s.sel, TRUE)
    IN  IF ~b.ok THEN NoMatch(gx, "EINVAL")
        ELSE IF op = "MATCH_SATISFIABILITY"
          THEN NoMatch(g, IF is_satisfiable(gx, spec, b.meta, exclusivity(spec.resources, Root))
                          THEN "" ELSE "ENODEV")
        ELSE IF s.err # "" THEN NoMatch(restored(s.g), s.err)
        ELSE IF s.meta.at = GraphEnd THEN NoMatch(restored(s.g), "EBUSY")
        ELSE IF s.meta.at > GraphEnd THEN NoMatch(restored(s.g), "EINVAL")
        ELSE IF ~u.ok THEN NoMatch(restored(u.g), "ERROR")
        ELSE [g |-> restored(u.g), err |-> "", at |-> cut.at, duration |-> cut.duration,
              R |-> u.R, reserved |-> cut.alloc_type = "AT_ALLOC_ORELSE_RESERVE"]
=============================================================================
