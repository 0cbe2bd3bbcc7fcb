--------------------------- MODULE PlannerClient ---------------------------
(***************************************************************************)
(* A multi-planner and a client that calls it in any order: the pruning     *)
(* filter of a vertex of the resource graph, as the traverser uses it.  A   *)
(* planner is not shared between threads; what is hard here are sequences   *)
(* of legal calls.                                                          *)
(***************************************************************************)
EXTENDS PlannerMulti, Sequences, SequencesExt

CONSTANTS
    ResType,    \* the resource types of the filter, as a sequence
    Total,      \* resource type -> the amount at the start
    NewTotals,  \* the totals an update may bring
    PlanEnd,    \* duration of the plan, which starts at 0
    Requests,   \* spans the client asks for: [start, duration, counts]
    Queries,    \* availability queries: [on_or_after, duration, counts]
    MaxAdds,    \* bound on the spans added
    MaxUpdates  \* bound on the updates of the totals

ASSUME PlannerAssumption ==
    /\ ResType \in Seq(ToSet(ResType)) \ {<< >>} /\ IsInjective(ResType)
    /\ PlanEnd \in Nat \ {0}
    /\ Requests \subseteq [start: Nat, duration: Nat, counts: [ToSet(ResType) -> Nat]]
    /\ Total \in [ToSet(ResType) -> Nat]
    /\ NewTotals \subseteq [ToSet(ResType) -> Nat]
    /\ Queries \subseteq [on_or_after: Nat, duration: Nat, counts: [ToSet(ResType) -> Nat]]
    /\ MaxAdds \in Nat /\ MaxUpdates \in Nat

VARIABLES
    m,       \* the multi-planner
    held,    \* ids of the spans the client has and has not removed
    updates, \* number of updates of the totals
    faults   \* what the planner has met that it does not fully support, by type

pvars == <<m, held, updates, faults>>

Types == ToSet(ResType)

PTypeOK ==
    /\ \A ty \in DOMAIN m.planners :
          LET p == m.planners[ty]
          IN  /\ p.points \in [Times(p) -> ScheduledPoint]
              /\ \A i \in DOMAIN p.spans : p.spans[i] \in Span
              /\ p.request \in Request
              /\ p.tracked \subseteq Times(p) /\ DOMAIN p.mintime \subseteq Times(p)
              /\ \A t \in Times(p) : p.start <= t /\ t <= p.end
    /\ held \subseteq DOMAIN m.spans

PInit ==
    /\ m = planner_multi_new(0, PlanEnd, ResType, Total)
    /\ held = {}
    /\ updates = 0
    /\ faults = [leak |-> FALSE, clamped |-> {}, stale |-> {}, copied |-> {},
                 moved |-> FALSE]

\* The counts of an iteration that is over, and lists of parts whose span
\* nobody holds, are not looked at again: they are forgotten.
Settled(mm, ids) ==
    [mm EXCEPT !.iter  = IF get_planner_at(mm, 1).iter_set THEN @
                         ELSE [duration |-> 0, counts |-> [ty \in DOMAIN mm.planners |-> 0]],
               !.spans = Restrict(@, DOMAIN @ \cap ids)]

AddSpan(r) ==
    LET a == planner_multi_add_span(m, r.start, r.duration, r.counts)
    IN  /\ m.counter < MaxAdds
        /\ held' = IF a.id = -1 THEN held ELSE held \cup {a.id}
        /\ m' = Settled(a.m, held')
        /\ faults' = [faults EXCEPT !.leak = @ \/ (a.id = -1 /\ a.m.planners # m.planners)]
        /\ UNCHANGED updates

RemSpan(id) ==
    LET a == planner_multi_rem_span(m, id)
    IN  /\ held' = IF a.ok THEN held \ {id} ELSE held
        /\ m' = Settled(a.m, held')
        /\ UNCHANGED <<updates, faults>>

\* A partial cancel names some of the types and what to give back of them.
ReduceSpan(id, counts) ==
    LET a == planner_multi_reduce_span(m, id, counts)
    IN  /\ held' = IF a.removed THEN held \ {id} ELSE held
        /\ m' = Settled(a.m, held')
        /\ UNCHANGED <<updates, faults>>

Ask(r) == planner_multi_avail_time_first(m, r.on_or_after, r.duration, r.counts)

AvailTimeFirst(r) ==
    /\ m' = Settled(Ask(r).m, held)
    /\ UNCHANGED <<held, updates, faults>>

AvailTimeNext ==
    /\ m' = Settled(planner_multi_avail_time_next(m).m, held)
    /\ UNCHANGED <<held, updates, faults>>

\* The traverser primes the filters again after the graph has changed.
Update(types, totals) ==
    /\ ToSet(types) # DOMAIN m.planners => held = {}
    /\ m' = Settled(planner_multi_update(m, types, totals), held)
    /\ faults' = [faults EXCEPT
         !.moved = @ \/ (held # {} /\ types # m.types),
         !.stale = (@ \cap ToSet(types)) \cup {ty \in ToSet(types) \cap DOMAIN m.planners :
                             totals[ty] # m.planners[ty].total},
         !.clamped = (@ \cap ToSet(types)) \cup {ty \in ToSet(types) \cap DOMAIN m.planners :
              \E t \in Times(m.planners[ty]) :
                  m.planners[ty].points[t].scheduled > totals[ty]},
         !.copied = @ \cap ToSet(types)]
    /\ updates < MaxUpdates /\ updates' = updates + 1
    /\ UNCHANGED held

\* clear_vertex resets the filter and forgets the spans it held.
Reset ==
    /\ held' = {}
    /\ m' = Settled(planner_multi_reset(m, 0, PlanEnd), held')
    /\ faults' = [faults EXCEPT !.leak = FALSE, !.clamped = {}, !.stale = {}, !.copied = {},
                               !.moved = FALSE]
    /\ UNCHANGED updates

\* The graph is cloned and the clone is used from here on.  Points that an
\* iteration has set aside are in the clone's min-time tree and set aside: when
\* they are restored, nodes of the tree are inserted into it a second time.
\* From then on the model knows which points there are, not the tree.
Clone ==
    /\ m' = planner_multi_copy(m)
    /\ faults' = [faults EXCEPT
         !.stale = {},
         !.copied = @ \cup {ty \in DOMAIN m.planners : m.planners[ty].tracked # {}}]
    /\ UNCHANGED <<held, updates>>

PNext ==
    \/ \E r \in Requests : AddSpan(r)
    \/ \E id \in held : RemSpan(id)
    \/ \E id \in held, ty \in Types, n \in 0 .. 1 : ReduceSpan(id, [x \in {ty} |-> n])
    \/ \E r \in Queries : AvailTimeFirst(r)
    \/ AvailTimeNext
    \/ \E types \in {ResType, Reverse(ResType), Tail(ResType)} \ {<< >>}, totals \in NewTotals :
          Update(types, totals)
    \/ Reset
    \/ Clone

PSpec == PInit /\ [][PNext]_pvars

(***************************************************************************)
(* Properties.                                                              *)
(***************************************************************************)
Resource(ty) == INSTANCE Timeline WITH
    booked   <- IF ty \in DOMAIN m.planners THEN m.planners[ty].spans ELSE [i \in {} |-> 0],
    capacity <- IF ty \in DOMAIN m.planners THEN m.planners[ty].total ELSE 0,
    degraded <- ty \in faults.clamped

\* Each planner implements the timeline of its resource: whatever sequence of
\* calls it has seen, a span is added only where the spans before it leave
\* enough at every instant (planner_add_span decides from its points).
ImplementsTimeline ==
    /\ \A ty \in Types : Resource(ty)!TInit
    /\ [][\A ty \in Types : Resource(ty)!TNext \/ UNCHANGED Resource(ty)!tvars]_pvars

\* At every instant the state in force says what the spans leave, wherever
\* spans start, end, overlap, shrink or go (the update_points_* functions).
Accounting ==
    \A ty \in DOMAIN m.planners \ faults.clamped : \A t \in 0 .. PlanEnd :
        LET p == m.planners[ty]
            used == Resource(ty)!Used(p.spans, t)
        IN  p.points[get_state(p, t)].scheduled = used
            /\ p.points[get_state(p, t)].remaining = p.total - used

\* Every part that a planner holds belongs to exactly one span of the client,
\* after removals and partial cancels too: nothing stays planned for nobody.
NothingOrphaned ==
    ~faults.leak /\ ~faults.moved =>
        \A ty \in DOMAIN m.planners :
            LET i == CHOOSE k \in DOMAIN m.types : m.types[k] = ty
                parts == [id \in {h \in held : m.spans[h][i] # -1} |-> m.spans[id][i]]
            IN  IsInjective(parts) /\ Range(parts) = DOMAIN m.planners[ty].spans

\* The times at which all the types have enough: by the spans, not the points.
FitTimes(r, counts) ==
    {t \in Times(get_planner_at(m, 1)) :
        /\ r.on_or_after <= t /\ t + r.duration <= PlanEnd
        /\ \A ty \in DOMAIN m.planners : \A u \in t .. (t + r.duration - 1) :
              counts[ty] + Resource(ty)!Used(m.planners[ty].spans, u) <= m.planners[ty].total}

Earliest(times) == IF times = {} THEN NoTime ELSE Min(times)

\* What the answers of a query rest on: no total has been updated, and the
\* planner that proposes the times is no copy made in the middle of an iteration.
TreeKnown == faults.stale = {} /\ faults.clamped = {} /\ m.types[1] \notin faults.copied

\* A query answers with the earliest point of change at which the request fits,
\* in whatever state earlier queries of the same planner have left the min-time
\* tree (planner_multi_avail_time_first, "the earliest point in integer time when
\* the request can be satisfied").  Said of no planner that was copied while
\* points were set aside: restore_track_points damages its tree.
EarliestFirst ==
    TreeKnown =>
        \A r \in Queries : r.on_or_after < PlanEnd /\ r.duration >= 1 =>
            Ask(r).t = Earliest(FitTimes(r, r.counts))

\* Asking on never repeats a time nor leaves one out: the next answer is the
\* earliest fit among the points the iteration has not yet looked at
\* (planner_multi_avail_time_next), and a changed planner is not iterated on.
\* A query that is refused leaves its amounts behind for the other types, so
\* this is said of an iteration whose last query was not refused; and a copy made
\* in the middle of an iteration begins it again from the first time.
NextGoesOn ==
    LET p == get_planner_at(m, 1)
        r == p.request
    IN  /\ TreeKnown /\ p.tracked # {}
        /\ m.iter.duration = r.duration /\ m.iter.counts[m.types[1]] = r.count
        =>
            planner_multi_avail_time_next(m).t =
                IF ~p.iter_set THEN NoTime
                ELSE Earliest({t \in FitTimes(r, m.iter.counts) : t > Max(p.tracked)})
=============================================================================
