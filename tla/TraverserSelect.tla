-------------------------- MODULE TraverserSelect --------------------------
(***************************************************************************)
(* Selection: how the depth-first-and-up traverser finds resources for a    *)
(* jobspec (resource/traversers/dfu_impl.cpp).  A visit of a vertex tests   *)
(* the requests against it, prunes, explores below and resolves what it     *)
(* found: it marks the edges it selected, or passes all on to its parent.   *)
(*                                                                          *)
(* meta    [jobid, at, now, duration, alloc_type, constraint]: jobmeta_t    *)
(* marks   edge -> [needs, exclusive], for the edges marked in this         *)
(*         selection (set_for_trav_update with the sequence number)         *)
(*                                                                          *)
(* Recursive, as the code is: for TLC only.                                 *)
(***************************************************************************)
EXTENDS ResourceGraph

NoMarks == [e \in {} |-> 0]

NoConstraint == Vertex

(***************************************************************************)
(* The jobspec's own amounts, to prune by.                                  *)
(***************************************************************************)
\* What a sequence of requests needs at least, by pruning type: the user_data
\* of the request above it.
RECURSIVE prime_jobspec(_, _)
prime_jobspec(mt, requests) ==
    FoldLeft(LAMBDA acc, r :
               LET below == prime_jobspec(mt, r.with)
                   each  == [t \in DOMAIN below |-> r.min * below[t]]
               IN  AccumAll(mt, each, accum_if(mt, r.type, r.min, acc)),
             NoCounts, requests)

\* The types the jobspec asks for exclusively join the matcher's.
RECURSIVE ExclusiveTypes(_)
ExclusiveTypes(requests) ==
    UNION {ExclusiveTypes(requests[i].with)
             \cup (IF requests[i].exclusive = "T" THEN {requests[i].type} ELSE {})
           : i \in DOMAIN requests}

count_relevant_types(plan, counts) == [t \in ToSet(plan.types) |-> CountOf(counts, t)]

(***************************************************************************)
(* Pruning.                                                                 *)
(***************************************************************************)
exclusivity(requests, u) ==
    \E i \in DOMAIN requests : requests[i].type = Type[u] /\ requests[i].exclusive = "T"

by_avail(g, meta, u) ==
    planner_avail_resources_during(g.vtx[u].plans, meta.at, meta.duration) > 0


\* Allocated now and not yet free is not available, whatever was planned.
by_excl(g, meta, u, exclusive_in, r) ==
    /\ ~(exclusive_in /\ r.exclusive = "F")
    /\ exclusive_in \/ r.exclusive = "T" =>
          /\ ~(/\ meta.at = meta.now /\ meta.alloc_type \in {"AT_ALLOC", "AT_NO_ALLOC"}
               /\ g.vtx[u].allocations # NoSpans)
          /\ planner_avail_resources_during(g.vtx[u].x_checker, meta.at, meta.duration) >= XJobs

\* Variant: a filter wants what the jobspec needs and one more.
by_subplan_strict(g, meta, u, r) ==
    LET plan == g.vtx[u].subplan
        needs == prime_jobspec(g.match, r.with)
    IN  plan = NoPlan \/ needs = NoCounts \/
        planner_multi_avail_during(plan, meta.at, meta.duration,
            [t \in ToSet(plan.types) |-> CountOf(needs, t) + 1])

by_subplan(g, meta, u, r) ==
    LET plan == g.vtx[u].subplan
        needs == prime_jobspec(g.match, r.with)
    IN  plan = NoPlan \/ needs = NoCounts \/
        planner_multi_avail_during(plan, meta.at, meta.duration,
                                   count_relevant_types(plan, needs))

by_status(g, meta, u) == meta.alloc_type = "AT_SATISFIABILITY" \/ g.vtx[u].up

\* A constraint is the set of nodes that match it.
by_constraint(meta, u) == Type[u] = NodeType => u \in meta.constraint

prune_resources(g, meta, exclusive, u, requests) ==
    \A i \in DOMAIN requests :
        LET r == requests[i]
        IN  Type[u] = r.type \/ r.type = SlotType =>
              /\ r.type # SlotType => by_excl(g, meta, u, exclusive, r)
              /\ by_subplan(g, meta, u, r)

\* Whether the vertex survives; the reason is EBUSY whatever it is.
prune(g, meta, exclusive, u, requests) ==
    /\ by_status(g, meta, u)
    /\ by_constraint(meta, u)
    /\ by_avail(g, meta, u)
    /\ prune_resources(g, meta, exclusive, u, requests)

(***************************************************************************)
(* Testing the requests against a vertex.                                   *)
(***************************************************************************)
SlotsIn(requests) == {i \in DOMAIN requests : requests[i].type = SlotType}

\* The request the vertex matches and the slot that applies to it; a jobspec
\* with several requests that match is refused.
match(u, requests) ==
    LET mine == {i \in DOMAIN requests : requests[i].type \in {Type[u], SlotType}}
        r == requests[CHOOSE i \in mine : TRUE]
        slot == IF r.type = SlotType THEN <<r>>
                ELSE [i \in 1 .. Min({1, Cardinality(SlotsIn(r.with))}) |->
                        r.with[Max(SlotsIn(r.with))]]
    IN  CASE mine = {}            -> [ok |-> TRUE, slot |-> << >>, here |-> << >>]
          [] Cardinality(mine) > 1 -> [ok |-> FALSE, slot |-> << >>, here |-> << >>]
          [] OTHER -> [ok |-> TRUE, slot |-> slot,
                       here |-> IF r.type = SlotType THEN << >> ELSE <<r>>]

\* Whether the vertex has all that the slot is made of right under it.
slot_match(g, u, slot) ==
    slot # << >> /\ \A i \in DOMAIN slot[1].with :
                       \E v \in ChildSet(g, u) : Type[v] = slot[1].with[i].type

\* pristine: no request has matched on the way down, so that a jobspec may
\* leave out the top of the graph.
test(g, u, requests, pristine) ==
    LET m == match(u, requests)
    IN  CASE ~m.ok -> [kind |-> "NONE", next |-> requests, pristine |-> pristine, nslots |-> 0]
          [] m.ok /\ slot_match(g, u, m.slot) ->
               [kind |-> "SLOT", next |-> m.slot[1].with, pristine |-> FALSE,
                nslots |-> calc_effective_max(m.slot[1])]
          [] m.ok /\ ~slot_match(g, u, m.slot) /\ m.here # << >> ->
               [kind |-> "RESOURCE", next |-> m.here[1].with, pristine |-> FALSE, nslots |-> 0]
          [] OTHER -> [kind |-> IF pristine THEN "PRISTINE" ELSE "NONE", next |-> requests,
                       pristine |-> pristine, nslots |-> 0]

(***************************************************************************)
(* Marking.                                                                 *)
(***************************************************************************)
Chosen(dfu) == {t \in DOMAIN dfu.ev : dfu.ev[t].best_k > 0}

\* The edges of the chosen groups; the root has none.
ChosenEdges(dfu) ==
    UNION {ToSet(dfu.ev[t].groups[i].edges) :
             <<t, i>> \in {<<t, i>> \in Chosen(dfu) \X (1 .. Cardinality(Vertex)) :
                              i <= dfu.ev[t].best_i /\ ~dfu.ev[t].groups[i].root}}

EdgeMarks(dfu) ==
    [e \in {x.edge : x \in ChosenEdges(dfu)} |->
        LET x == CHOOSE y \in ChosenEdges(dfu) : y.edge = e
        IN  [needs |-> x.needs, exclusive |-> x.exclusive]]

Override(old, new) == [e \in DOMAIN old \cup DOMAIN new |->
                          IF e \in DOMAIN new THEN new[e] ELSE old[e]]

\* At the top, vertices on the way to a chosen one that no request constrains
\* are marked too, up to the first that is marked already.
enforce(dfu, marks, unconstrained) ==
    LET chosen == EdgeMarks(dfu)
        reached(e) == {a \in Ancestors(e) \ {Root} :
                         \A b \in Ancestors(e) \ {Root} :
                             b = a \/ a \in Ancestors(b) => b \notin DOMAIN marks}
        above  == {a \in UNION {reached(e) : e \in DOMAIN chosen} \ DOMAIN chosen :
                     Type[a] \in DOMAIN dfu.ev /\ dfu.ev[Type[a]].best_k = 0}
    IN  Override(marks,
          IF ~unconstrained THEN chosen
          ELSE Override([a \in above |-> [needs |-> Size[a], exclusive |-> FALSE]], chosen))

(***************************************************************************)
(* The visit.                                                               *)
(***************************************************************************)
Failed(marks) ==
    [ok |-> FALSE, exclusive |-> FALSE, avail |-> 0, score |-> 0,
     up |-> NoScores.ev, marks |-> marks]

Group(score, count, exclusive, edge) ==
    [score |-> score, count |-> count, exclusive |-> exclusive, root |-> FALSE,
     edges |-> <<[count |-> count, needs |-> count, exclusive |-> exclusive, edge |-> edge]>>]

\* The slots that whole groups can be packed into, for the scarcest type.
cnt_slot(slot_shape, dfu) ==
    LET per(r) == calc_count(r, qualified_count(dfu, r.type))
        fit(r) == IF per(r) = 0 THEN 0
                  ELSE FoldLeft(LAMBDA tally, x : tally_add(tally, x.edges[1].count),
                                NewTally(per(r)), Evals(dfu, r.type).groups).shares
    IN  Min({fit(slot_shape[i]) : i \in DOMAIN slot_shape})

\* The groups of one type that make slot number n: whole ones, in order.
SlotShare(dfu, r, n) ==
    LET groups == Evals(dfu, r.type).groups
        per == calc_count(r, qualified_count(dfu, r.type))
        before(i) == FoldLeft(LAMBDA tally, x : tally_add(tally, x.edges[1].count),
                              NewTally(per), SubSeq(groups, 1, i - 1)).shares
    IN  {i \in DOMAIN groups : before(i) = n - 1}

PackSlot(dfu, slot_shape, n) ==
    LET edges == FlattenSeq([k \in DOMAIN slot_shape |->
            LET groups == Evals(dfu, slot_shape[k].type).groups
                share  == SetToSortSeq(SlotShare(dfu, slot_shape[k], n), <)
            IN  [i \in DOMAIN share |-> [groups[share[i]].edges[1] EXCEPT !.exclusive = TRUE]]])
        score == SumOver(LAMBDA k :
            LET groups == Evals(dfu, slot_shape[k].type).groups
            IN  SumOver(LAMBDA i : groups[i].score, SlotShare(dfu, slot_shape[k], n)),
            DOMAIN slot_shape)
    IN  [score |-> 1 + score, count |-> 1, exclusive |-> TRUE, root |-> FALSE, edges |-> edges]

RECURSIVE dom_dfv(_, _, _, _, _, _, _)

\* One child visited: what it found joins what the siblings found.
Visit(g, meta, v, requests, pristine, excl, acc) ==
    LET r == dom_dfv(g, meta, v, requests, pristine, excl, acc.marks)
    IN  IF ~r.ok THEN [acc EXCEPT !.marks = r.marks]
        ELSE [acc EXCEPT !.marks = r.marks, !.found = TRUE,
                         !.dfu = add(merge(@, r.up), Type[v],
                                     Group(r.score, r.avail, r.exclusive, v))]

explore_statically(g, meta, u, requests, pristine, excl, marks) ==
    FoldLeft(LAMBDA acc, v : Visit(g, meta, v, requests, pristine, excl, acc),
             [dfu |-> NoScores, marks |-> marks, found |-> FALSE], Children(g, u))

\* Everything a child match has added counts toward the next share as one.
tally_shares(dfu, tallies) ==
    [t \in DOMAIN tallies |->
        LET total == total_count(dfu, t)
            tally == tallies[t]
        IN  IF total <= tally.prev_total THEN tally
            ELSE tally_add([tally EXCEPT !.prev_total = total], total - tally.prev_total)]

new_sat_types(requests, tallies, multiplier) ==
    {requests[i].type : i \in {k \in DOMAIN requests :
                                  tally_satisfies(tallies[requests[k].type], multiplier)}}

is_enough(requests, tallies, multiplier) ==
    \A i \in DOMAIN requests : tally_satisfies(tallies[requests[i].type], multiplier)

\* Stops once every type has been found often enough, heaviest edges first.
explore_dynamically(g, meta, u, requests, pristine, excl, marks, multiplier) ==
    LET types == {requests[i].type : i \in DOMAIN requests}
        start == [t \in types |-> NewTally(calc_effective_max(
                     requests[CHOOSE i \in DOMAIN requests : requests[i].type = t]))]
        step(acc, v) ==
          IF acc.done \/ Type[v] \in acc.sat THEN acc
          ELSE LET a == Visit(g, meta, v, requests, pristine, excl, acc)
                   hit == a.dfu # acc.dfu
                   tallies == IF hit THEN tally_shares(a.dfu, acc.tallies) ELSE acc.tallies
               IN  [a EXCEPT !.tallies = tallies,
                             !.sat  = IF hit THEN @ \cup new_sat_types(requests, tallies,
                                                                       multiplier) ELSE @,
                             !.done = hit /\ is_enough(requests, tallies, multiplier)]
    IN  FoldLeft(step, [dfu |-> NoScores, marks |-> marks, found |-> FALSE, tallies |-> start,
                        sat |-> {}, done |-> FALSE], ByWeight(g, u))

explore(g, meta, u, requests, pristine, excl, marks, multiplier) ==
    IF g.match.stop_on_k = 0
    THEN explore_statically(g, meta, u, requests, pristine, excl, marks)
    ELSE explore_dynamically(g, meta, u, requests, pristine, excl, marks, multiplier)

dom_slot(g, meta, u, slot_shape, nslots, pristine, marks) ==
    LET e == explore(g, meta, u, slot_shape, pristine, TRUE, marks, nslots)
        dfu == dom_finish_slot(g.match, e.dfu)
        n == IF e.found THEN cnt_slot(slot_shape, dfu) ELSE 0
    IN  [dfu |-> FoldLeft(LAMBDA acc, i : add(acc, SlotType, PackSlot(dfu, slot_shape, i)),
                          NoScores, [i \in 1 .. n |-> i]),
         marks |-> e.marks]

\* Marks the chosen edges, or hands everything up; see the fields up and marks.
resolve(dfu, marks) ==
    IF dfu.constrain THEN [up |-> NoScores.ev, marks |-> enforce(dfu, marks, FALSE)]
    ELSE [up |-> dfu.ev, marks |-> marks]

\* dom_discover_vtx adds the factor of a node before what is in it is visited
\* and dom_finish_vtx takes it off again.
m_multilevel_scores(g, u) ==
    IF ~g.match.node_centric THEN 0
    ELSE SumOver(LAMBDA n : calc_factor(Id[n] + 1, n), {n \in Ancestors(u) : Type[n] = NodeType})

dom_dfv(g, meta, u, requests, pristine, excl, marks) ==
    LET x_in == excl \/ exclusivity(requests, u)
        t == test(g, u, requests, pristine)
        e == IF t.kind = "SLOT"
               THEN dom_slot(g, meta, u, t.next, t.nslots, t.pristine, marks)
               ELSE explore(g, meta, u, t.next, t.pristine, x_in, marks, 1)
        avail == planner_avail_resources_during(g.vtx[u].plans, meta.at, meta.duration)
        f == dom_finish_vtx(g.match, e.dfu, Type[u], requests, Id[u], m_multilevel_scores(g, u))
        r == resolve(f.dfu, e.marks)
    IN  IF t.kind = "NONE" \/ ~prune(g, meta, x_in, u, requests) THEN Failed(marks)
        ELSE IF avail <= 0 \/ ~f.met THEN Failed(e.marks)
        ELSE [ok |-> TRUE, exclusive |-> x_in, avail |-> avail, score |-> f.dfu.score,
              up |-> r.up, marks |-> r.marks]

\* How much of the root is needed: all there is when it is asked for.
has_root(requests, avail) ==
    LET mine == {i \in DOMAIN requests : requests[i].type = Type[Root]}
    IN  IF mine = {} THEN 1 ELSE calc_count(requests[Max(mine)], avail)

has_remaining(dfu) == \A t \in DOMAIN dfu.ev : qualified_count(dfu, t) # 0

NotSelected == [ok |-> FALSE, marks |-> NoMarks, needs |-> 0, exclusive |-> FALSE]

resolve_graph(mt, dfu, marks, requests) ==
    LET f == dom_finish_graph(mt, dfu, requests)
        needs == has_root(requests, f.dfu.avail)
    IN  IF f.met /\ needs # 0 /\ has_remaining(f.dfu)
        THEN [ok |-> TRUE, marks |-> enforce(f.dfu, marks, TRUE), needs |-> needs]
        ELSE [ok |-> FALSE, marks |-> NoMarks, needs |-> 0]

select(g, requests, meta, excl) ==
    LET r == dom_dfv(g, meta, Root, requests, TRUE, excl, NoMarks)
        top == [score |-> r.score, count |-> r.avail, exclusive |-> excl, root |-> TRUE,
                edges |-> << >>]
        dfu == [add([NoScores EXCEPT !.ev = r.up], Type[Root], top) EXCEPT !.avail = r.avail]
        s == resolve_graph(g.match, dfu, r.marks, requests)
    IN  IF ~r.ok \/ ~s.ok THEN NotSelected
        ELSE [ok |-> TRUE, marks |-> s.marks, needs |-> s.needs, exclusive |-> r.exclusive]
=============================================================================
