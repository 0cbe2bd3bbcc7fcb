------------------------------ MODULE Planner ------------------------------
(***************************************************************************)
(* The planner of one resource (resource/planner/c++/planner.cpp and the    *)
(* C interface in resource/planner/c/planner_c_interface.cpp): the          *)
(* scheduled points at which the amount of free resource changes, the       *)
(* min-time tree that finds the earliest point with enough of it, and the   *)
(* planned spans.  A planner is a record; every call is an operator from    *)
(* planners to planners, in a record with its result where it has one.      *)
(*                                                                          *)
(* points   the scheduled point tree: time -> state from that time on       *)
(* mintime  the min-time tree: time -> the amount under which the point     *)
(*          was inserted (the tree node keeps a copy of it)                 *)
(* tracked  m_avail_time_iter: points an iteration took out of the tree     *)
(***************************************************************************)
EXTENDS Integers, FiniteSets, FiniteSetsExt, Functions

NoTime == -1

Request == [on_or_after: Nat, duration: Nat, count: Nat]

NoRequest == [on_or_after |-> 0, duration |-> 0, count |-> 0]

\* scheduled_point_t, without the flag new_point, which nothing reads.
ScheduledPoint == [ref_count: Nat, scheduled: Int, remaining: Int]

Span == [start: Nat, last: Nat, planned: Nat]

planner_new(base_time, duration, total) ==
    [ total    |-> total,
      start    |-> base_time,
      end      |-> base_time + duration,
      points   |-> [t \in {base_time} |->
                      [ref_count |-> 1, scheduled |-> 0, remaining |-> total]],
      mintime  |-> [t \in {base_time} |-> total],
      tracked  |-> {},
      iter_set |-> FALSE,
      request  |-> NoRequest,
      spans    |-> [i \in {} |-> 0],
      counter  |-> 0 ]

Times(p) == DOMAIN p.points

(***************************************************************************)
(* The scheduled point tree.                                                *)
(***************************************************************************)
\* Every time from the start of the plan on has a state; earlier ones do not.
HasState(p, at) == \E t \in Times(p) : t <= at

\* The most recent point: the state of the resource at a time.
get_state(p, at) == Max({t \in Times(p) : t <= at})

get_or_new_point(p, at) ==
    IF at \in Times(p) THEN p
    ELSE LET state == p.points[get_state(p, at)]
         IN  [p EXCEPT
                !.points  = [t \in Times(p) \cup {at} |->
                               IF t = at THEN [state EXCEPT !.ref_count = 0] ELSE @[t]],
                !.mintime = [t \in DOMAIN @ \cup {at} |->
                               IF t = at THEN state.remaining ELSE @[t]]]

IncrRef(p, at) == [p EXCEPT !.points[at].ref_count = @ + 1]

DecrRef(p, at) == [p EXCEPT !.points[at].ref_count = @ - 1]

\* A point that no span starts or ends at leaves both trees.
DropUnreferenced(p, at) ==
    IF p.points[at].ref_count # 0 THEN p
    ELSE [p EXCEPT !.points  = Restrict(@, Times(p) \ {at}),
                   !.mintime = Restrict(@, DOMAIN @ \ {at})]

\* Variant: a span also takes from the point at which it ends.
fetch_overlap_points_closed(p, at, duration) ==
    {t \in Times(p) : at <= t /\ t <= at + duration}

fetch_overlap_points(p, at, duration) ==
    {t \in Times(p) : at <= t /\ t < at + duration}

\* A point at which so much more is planned.
TakeFrom(point, planned) ==
    [point EXCEPT !.scheduled = @ + planned, !.remaining = @ - planned]

\* The loops of update_points_add_span, _subtract_span and
\* _partial_subtract_span; the range errors they report are not looked at.  The
\* last of them stops at such an error, which only a clamped planner can meet.
UpdatePoints(p, list, planned) ==
    [p EXCEPT !.points = [t \in Times(p) |->
        IF t \in list THEN TakeFrom(@[t], planned) ELSE @[t]]]

(***************************************************************************)
(* The min-time tree, by what it holds; MintimeTree has the search in it.   *)
(***************************************************************************)
\* Variant: points an iteration has tracked stay out of the tree.
restore_track_points_lost(p) == [p EXCEPT !.tracked = {}]

\* A point that is in the tree already (see planner_copy) is inserted again, which
\* cuts off what is below its node: what the tree then holds is not modelled.
restore_track_points(p) ==
    [p EXCEPT !.mintime = [t \in DOMAIN @ \cup p.tracked |->
                             IF t \in p.tracked THEN p.points[t].remaining ELSE @[t]],
              !.tracked = {}]

\* Points are taken out and put back under their new amount.
update_mintime_resource_tree(p, list) ==
    [p EXCEPT !.mintime =
        [t \in (DOMAIN @ \ list) \cup {u \in list : p.points[u].ref_count > 0} |->
           IF t \in list THEN p.points[t].remaining ELSE @[t]]]

\* The points get_mintime returns, one after the other, as each is taken out.
Candidates(p, request) == {t \in DOMAIN p.mintime : request <= p.mintime[t]}

span_ok(p, at, duration, request) ==
    \A t \in Times(p) : at <= t /\ t < at + duration => request <= p.points[t].remaining

\* The loop visits the candidates in the order of time and takes each out of
\* the tree, up to the first at which the span fits.  When none fits, it
\* leaves with the time of the last candidate it looked at.
avail_at(p, r) ==
    LET cand == Candidates(p, r.count)
        fit  == {t \in cand : r.on_or_after <= t /\ span_ok(p, t, r.duration, r.count)}
        seen == IF fit = {} THEN cand ELSE {t \in cand : t <= Min(fit)}
        last == IF seen = {} THEN NoTime ELSE Max(seen)
    IN  [ p |-> [p EXCEPT !.mintime = Restrict(@, DOMAIN @ \ seen),
                          !.tracked = @ \cup seen],
          t |-> IF last < r.on_or_after \/ (fit # {} /\ last + r.duration > p.end)
                  THEN NoTime ELSE last ]

\* The request of an iteration that is over is not read again: it is forgotten.
EndIteration(p) == [p EXCEPT !.iter_set = FALSE, !.request = NoRequest]

(***************************************************************************)
(* Queries.                                                                 *)
(***************************************************************************)
planner_avail_time_first(p, on_or_after, duration, request) ==
    IF \/ on_or_after < p.start \/ on_or_after >= p.end \/ duration < 1
       \/ request > p.total
    THEN [p |-> p, t |-> NoTime]
    ELSE LET r == [on_or_after |-> on_or_after, duration |-> duration, count |-> request]
         IN  avail_at([restore_track_points(p) EXCEPT !.iter_set = TRUE, !.request = r], r)

planner_avail_time_next(p) ==
    IF ~p.iter_set \/ p.request.count > p.total
    THEN [p |-> p, t |-> NoTime]
    ELSE avail_at(p, p.request)

\* The states in force at some time of [at, at + duration).
InForce(p, at, duration) ==
    {t \in Times(p) : t < at + duration /\ HasState(p, at) /\ t >= get_state(p, at)}

\* Variant: only the points inside the interval are looked at.
avail_during_inside(p, at, duration, request) ==
    /\ at + duration <= p.end
    /\ \A t \in fetch_overlap_points(p, at, duration) : request <= p.points[t].remaining

avail_during(p, at, duration, request) ==
    /\ at + duration <= p.end
    /\ \A t \in InForce(p, at, duration) : request <= p.points[t].remaining

planner_avail_during(p, at, duration, request) ==
    duration >= 1 /\ request <= p.total /\ avail_during(p, at, duration, request)

avail_resources_during(p, at, duration) ==
    IF at + duration > p.end \/ ~HasState(p, at) THEN -1
    ELSE Min({p.points[t].remaining : t \in InForce(p, at, duration)})

planner_avail_resources_during(p, at, duration) ==
    IF at > p.end \/ duration < 1 THEN -1 ELSE avail_resources_during(p, at, duration)

planner_avail_resources_at(p, at) ==
    IF at > p.end \/ at < p.start THEN -1 ELSE p.points[get_state(p, at)].remaining

planner_span_resource_count(p, id) == IF id \in DOMAIN p.spans THEN p.spans[id].planned ELSE -1

planner_is_active_span(p, id) == id \in DOMAIN p.spans

(***************************************************************************)
(* Updates.                                                                 *)
(***************************************************************************)
span_input_check(p, start_time, duration, request) ==
    /\ start_time >= p.start /\ duration >= 1 /\ start_time + duration - 1 <= p.end
    /\ request <= p.total /\ request >= 0

span_new(p, start_time, duration, request) ==
    LET id == p.counter + 1
    IN  [p EXCEPT !.counter = id,
                  !.spans   = [i \in DOMAIN @ \cup {id} |->
                     IF i = id THEN [start |-> start_time, last |-> start_time + duration,
                                     planned |-> request]
                     ELSE @[i]]]

planner_add_span(p, start_time, duration, request) ==
    IF ~(avail_during(p, start_time, duration, request)
         /\ span_input_check(p, start_time, duration, request))
    THEN [p |-> p, id |-> -1]
    ELSE LET last == start_time + duration
             p1 == restore_track_points(span_new(p, start_time, duration, request))
             p2 == IncrRef(get_or_new_point(p1, start_time), start_time)
             p3 == IncrRef(get_or_new_point(p2, last), last)
             list == fetch_overlap_points(p3, start_time, duration)
             p4 == update_mintime_resource_tree(UpdatePoints(p3, list, request), list)
         IN  [p |-> EndIteration(p4), id |-> p4.counter]

\* Variant: the points an iteration has tracked are not restored first.
planner_rem_span_tracking(p, id) ==
    IF id \notin DOMAIN p.spans THEN [p |-> p, ok |-> FALSE]
    ELSE LET s  == p.spans[id]
             p1 == DecrRef(DecrRef(p, s.start), s.last)
             list == fetch_overlap_points(p1, s.start, s.last - s.start)
             p2 == update_mintime_resource_tree(UpdatePoints(p1, list, -s.planned), list)
             p3 == DropUnreferenced(DropUnreferenced(p2, s.start), s.last)
         IN  [p  |-> [p3 EXCEPT !.spans = Restrict(@, DOMAIN @ \ {id}), !.iter_set = FALSE],
              ok |-> TRUE]

planner_rem_span(p, id) ==
    IF id \notin DOMAIN p.spans THEN [p |-> p, ok |-> FALSE]
    ELSE LET s  == p.spans[id]
             p1 == DecrRef(DecrRef(restore_track_points(p), s.start), s.last)
             list == fetch_overlap_points(p1, s.start, s.last - s.start)
             p2 == update_mintime_resource_tree(UpdatePoints(p1, list, -s.planned), list)
             p3 == DropUnreferenced(DropUnreferenced(p2, s.start), s.last)
         IN  [p  |-> EndIteration([p3 EXCEPT !.spans = Restrict(@, DOMAIN @ \ {id})]),
              ok |-> TRUE]

planner_reduce_span(p, id, to_remove) ==
    IF id \notin DOMAIN p.spans \/ to_remove > p.spans[id].planned
      THEN [p |-> p, ok |-> FALSE, removed |-> FALSE]
    ELSE LET s == p.spans[id]
         IN  IF to_remove = s.planned
               THEN [p |-> planner_rem_span(p, id).p, ok |-> TRUE, removed |-> TRUE]
             ELSE IF to_remove = 0 THEN [p |-> p, ok |-> TRUE, removed |-> FALSE]
             ELSE LET p1 == [restore_track_points(p) EXCEPT !.spans[id].planned = @ - to_remove]
                      list == fetch_overlap_points(p1, s.start, s.last - s.start)
                  IN  [p |-> update_mintime_resource_tree(
                                 UpdatePoints(p1, list, -to_remove), list),
                       ok |-> TRUE, removed |-> FALSE]

\* Points are clamped at zero; the min-time tree is not told.
planner_update_total(p, total) ==
    LET delta == total - p.total
        left(point) == [point EXCEPT !.remaining = IF @ + delta >= 0 THEN @ + delta ELSE 0]
    IN  [p EXCEPT !.total  = total,
                  !.points = [t \in Times(p) |-> left(@[t])]]

planner_reset(p, base_time, duration) ==
    IF duration < 1 THEN p
    ELSE planner_new(base_time, duration, p.total)

\* Every point is inserted into the copy's min-time tree, tracked or not; the
\* tracked ones stay tracked.
planner_copy(p) ==
    [p EXCEPT !.mintime = [t \in Times(p) |-> p.points[t].remaining]]

\* operator==: the current request is not compared.
planners_equal(p, o) == [p EXCEPT !.request = o.request] = o
=============================================================================
