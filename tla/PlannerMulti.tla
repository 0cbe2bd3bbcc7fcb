---------------------------- MODULE PlannerMulti ----------------------------
(***************************************************************************)
(* A planner for several resource types (planner_multi.cpp and              *)
(* planner_multi_c_interface.cpp): one planner per type, in an order, and   *)
(* spans that consist of one span of each planner.  The vertices of the     *)
(* resource graph keep one as their pruning filter.                         *)
(*                                                                          *)
(* types     the resource types in the order of their index                 *)
(* planners  resource type -> planner                                       *)
(* spans     span id -> the ids of its parts, by index; -1 once removed     *)
(***************************************************************************)
EXTENDS Planner, Sequences, SequencesExt

planner_multi_new(base_time, duration, types, totals) ==
    [ types    |-> types,
      planners |-> [ty \in ToSet(types) |-> planner_new(base_time, duration, totals[ty])],
      spans    |-> [i \in {} |-> << >>],
      counter  |-> 0,
      iter     |-> [duration |-> 0, counts |-> [ty \in ToSet(types) |-> 0]] ]

get_planner_at(m, i) == m.planners[m.types[i]]

\* Replaces the planner at index i.
SetPlanner(m, i, p) == [m EXCEPT !.planners[m.types[i]] = p]

\* Whether the types after the first are available as well.
OthersAvail(m, t, duration, counts) ==
    \A i \in 2..Len(m.types) :
        planner_avail_during(get_planner_at(m, i), t, duration, counts[m.types[i]])

\* The do-while loops of planner_multi_avail_time_first and _next: the first
\* planner proposes times until the others agree or it has no more.
Iterate(m, first, duration, counts) ==
    LET step[n \in Nat] ==
          IF n = 0 THEN first
          ELSE LET prev == step[n - 1]
               IN  IF prev.t = NoTime \/ OthersAvail(m, prev.t, duration, counts)
                     THEN prev ELSE planner_avail_time_next(prev.p)
        last == step[Cardinality(Times(first.p)) + 1]
    IN  [m |-> SetPlanner(m, 1, last.p), t |-> last.t]

planner_multi_avail_time_first(m, on_or_after, duration, counts) ==
    Iterate([m EXCEPT !.iter = [duration |-> duration, counts |-> counts]],
            planner_avail_time_first(get_planner_at(m, 1), on_or_after, duration,
                                     counts[m.types[1]]),
            duration, counts)

\* Variant: the other types are not asked again.
planner_multi_avail_time_next_alone(m) ==
    LET a == planner_avail_time_next(get_planner_at(m, 1))
    IN  [m |-> SetPlanner(m, 1, a.p), t |-> a.t]

planner_multi_avail_time_next(m) ==
    Iterate(m, planner_avail_time_next(get_planner_at(m, 1)), m.iter.duration, m.iter.counts)

planner_multi_avail_during(m, at, duration, counts) ==
    \A i \in DOMAIN m.types :
        planner_avail_during(get_planner_at(m, i), at, duration, counts[m.types[i]])

planner_multi_avail_resources_array_during(m, at, duration) ==
    [ty \in ToSet(m.types) |-> planner_avail_resources_during(m.planners[ty], at, duration)]

(***************************************************************************)
(* Spans.                                                                   *)
(***************************************************************************)
\* Planners are asked in the order of their index, up to the first that
\* refuses; what the ones before it planned stays planned.
planner_multi_add_span(m, start_time, duration, counts) ==
    LET add(i) == planner_add_span(get_planner_at(m, i), start_time, duration,
                                   counts[m.types[i]])
        refuse == {i \in DOMAIN m.types : add(i).id = -1}
        done   == IF refuse = {} THEN DOMAIN m.types ELSE 1..(Min(refuse) - 1)
        planned == [m EXCEPT
          !.counter  = @ + 1,
          !.planners = [ty \in DOMAIN @ |->
                          IF \E i \in done : m.types[i] = ty
                            THEN add(CHOOSE i \in done : m.types[i] = ty).p ELSE @[ty]]]
    IN  IF refuse # {} THEN [m |-> planned, id |-> -1]
        ELSE [m  |-> [planned EXCEPT !.spans = [j \in DOMAIN @ \cup {m.counter} |->
                        IF j = m.counter THEN [i \in DOMAIN m.types |-> add(i).id] ELSE @[j]]],
              id |-> m.counter]

\* Parts are removed in the order of their index, up to one that is not there.
planner_multi_rem_span(m, id) ==
    IF id \notin DOMAIN m.spans THEN [m |-> m, ok |-> FALSE]
    ELSE LET parts == m.spans[id]
             rem(i) == planner_rem_span(get_planner_at(m, i), parts[i])
             fail  == {i \in DOMAIN parts : parts[i] # -1 /\ ~rem(i).ok}
             done  == {i \in DOMAIN parts : parts[i] # -1 /\ \A k \in fail : i < k}
             m1    == [m EXCEPT !.planners = [ty \in DOMAIN @ |->
                          IF \E i \in done : m.types[i] = ty
                            THEN rem(CHOOSE i \in done : m.types[i] = ty).p ELSE @[ty]]]
         IN  IF fail # {} THEN [m |-> m1, ok |-> FALSE]
             ELSE [m |-> [m1 EXCEPT !.spans = Restrict(@, DOMAIN @ \ {id})], ok |-> TRUE]

\* Variant: the span is gone when the types that are named are.
planner_multi_reduce_span_early(m, id, counts) ==
    IF id \notin DOMAIN m.spans THEN [m |-> m, ok |-> FALSE, removed |-> FALSE]
    ELSE LET named == {i \in DOMAIN m.types : m.types[i] \in DOMAIN counts}
             red(i) == planner_reduce_span(get_planner_at(m, i), m.spans[id][i],
                                           counts[m.types[i]])
             gone == \A i \in named : red(i).removed
         IN  [m |-> [m EXCEPT !.planners = [ty \in DOMAIN @ |->
                          IF \E i \in named : m.types[i] = ty
                            THEN red(CHOOSE i \in named : m.types[i] = ty).p ELSE @[ty]],
                              !.spans = IF gone THEN Restrict(@, DOMAIN @ \ {id}) ELSE @],
              ok |-> TRUE, removed |-> gone]

\* Types that are not named are reduced by nothing, which removes the parts
\* that plan nothing.  A part that refuses although it is there ends the call.
planner_multi_reduce_span(m, id, counts) ==
    IF id \notin DOMAIN m.spans THEN [m |-> m, ok |-> FALSE, removed |-> FALSE]
    ELSE LET parts == m.spans[id]
             amount(i) == IF m.types[i] \in DOMAIN counts THEN counts[m.types[i]] ELSE 0
             red(i) == planner_reduce_span(get_planner_at(m, i), parts[i], amount(i))
             fail   == {i \in DOMAIN m.types :
                          ~red(i).ok /\ planner_is_active_span(get_planner_at(m, i), parts[i])}
             first  == {i \in DOMAIN m.types : m.types[i] \in DOMAIN counts}
             before(i, k) == IF i \in first THEN k \in first => i < k
                                            ELSE k \notin first /\ i < k
             done   == {i \in DOMAIN m.types : \A k \in fail : i # k /\ before(i, k)}
             parts1 == [i \in DOMAIN parts |->
                          IF i \in done /\ red(i).removed THEN -1 ELSE parts[i]]
             gone   == fail = {} /\ \A i \in DOMAIN parts : parts1[i] = -1
         IN  [m |-> [m EXCEPT !.planners = [ty \in DOMAIN @ |->
                          IF \E i \in done : m.types[i] = ty
                            THEN red(CHOOSE i \in done : m.types[i] = ty).p ELSE @[ty]],
                              !.spans = IF gone THEN Restrict(@, DOMAIN @ \ {id})
                                        ELSE [@ EXCEPT ![id] = parts1]],
              ok |-> fail = {}, removed |-> gone]

\* What a span still plans of the type at an index.
planner_multi_span_planned_at(m, id, i) ==
    IF m.spans[id][i] = -1 THEN 0
    ELSE planner_span_resource_count(get_planner_at(m, i), m.spans[id][i])

(***************************************************************************)
(* The whole.                                                               *)
(***************************************************************************)
\* New types are inserted at their index, known ones moved there, the rest
\* deleted; the spans' lists of parts are not rearranged.
planner_multi_update(m, types, totals) ==
    LET p1 == get_planner_at(m, 1)
        update(ty) == IF ty \in DOMAIN m.planners
                        THEN planner_update_total(m.planners[ty], totals[ty])
                        ELSE planner_new(p1.start, p1.end - p1.start, totals[ty])
    IN  IF types = << >> THEN m
        ELSE [m EXCEPT !.types    = types,
                       !.planners = [ty \in ToSet(types) |-> update(ty)],
                       !.iter.counts = [ty \in ToSet(types) |->
                          IF ty \in DOMAIN m.planners THEN @[ty] ELSE 0]]

\* The planners forget their spans and their counters; the lists of parts stay.
planner_multi_reset(m, base_time, duration) ==
    IF duration < 1 THEN m
    ELSE [m EXCEPT !.planners = [ty \in DOMAIN @ |-> planner_reset(@[ty], base_time, duration)]]

planner_multi_copy(m) ==
    [m EXCEPT !.planners = [ty \in DOMAIN @ |-> planner_copy(@[ty])]]

planner_multis_equal(m, o) ==
    /\ m.types = o.types /\ m.spans = o.spans /\ m.counter = o.counter /\ m.iter = o.iter
    /\ \A ty \in DOMAIN m.planners : planners_equal(m.planners[ty], o.planners[ty])
=============================================================================
