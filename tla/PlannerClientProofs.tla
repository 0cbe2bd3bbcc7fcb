------------------------- MODULE PlannerClientProofs -------------------------
(***************************************************************************)
(* Theorems about the multi-planner and its client: whatever the plan, the *)
(* amounts, the requests and the sequence of calls, each planner keeps     *)
(* account of its spans and implements the timeline of its resource.       *)
(***************************************************************************)
EXTENDS PlannerProofs

(***************************************************************************)
(* What a call does to the planner of one type.                            *)
(***************************************************************************)
\* A span is added that fits, by the spans, unless the points are not exact.
Booked(p, r) ==
    \E id, s : /\ id \notin DOMAIN p.spans /\ r.spans = WithSpan(p.spans, id, s)
               /\ Exact(p) => \A t \in s.start .. (s.last - 1) :
                                 Use(p.spans, t) + s.planned <= p.total

Released(p, r) ==
    \E id \in DOMAIN p.spans : r.spans = Restrict(p.spans, DOMAIN p.spans \ {id})

Lowered(p, r) ==
    \E id \in DOMAIN p.spans, n \in Nat :
        n < p.spans[id].planned /\ r.spans = [p.spans EXCEPT ![id].planned = n]

\* From planner p to planner r by one call or by copying: the points and the spans,
Advances(p, r) ==
    /\ Sound(r) /\ r.total = p.total /\ r.start = p.start /\ r.end = p.end
    /\ Exact(p) => Exact(r)
    /\ r.spans = p.spans \/ Booked(p, r) \/ Released(p, r) \/ Lowered(p, r)

\* and, by one call, the min-time tree and the iteration.
Steps(p, r) ==
    /\ Advances(p, r)
    /\ Current(p) => Current(r)
    /\ Accurate(p) /\ Sought(p) => Sought(r)

\* A query is a step of the planner,
LEMMA KeptSteps ==
    ASSUME NEW p, NEW r, Kept(p, r)
    PROVE  Steps(p, r)
<1>1. Exact(p) => Exact(r)
  BY SameAccurate DEF Kept
<1> QED BY <1>1 DEF Steps, Advances, Kept, Same

\* and so is a span that is added,
LEMMA AddSteps ==
    ASSUME NEW p, Sound(p), NEW from \in Nat, NEW duration \in Nat, NEW count \in Nat
    PROVE  Steps(p, planner_add_span(p, from, duration, count).p)
<1> DEFINE a == planner_add_span(p, from, duration, count)
           s == [start |-> from, last |-> from + duration, planned |-> count]
<1>1. CASE ~(avail_during(p, from, duration, count) /\ span_input_check(p, from, duration, count))
  <2>1. a.p = p
    BY <1>1 DEF planner_add_span
  <2> QED BY <2>1 DEF Steps, Advances
<1>2. CASE avail_during(p, from, duration, count) /\ span_input_check(p, from, duration, count)
  <2>1. /\ Sound(a.p) /\ a.p.spans = WithSpan(p.spans, p.counter + 1, s)
        /\ a.p.total = p.total /\ a.p.start = p.start /\ a.p.end = p.end
        /\ a.p.tracked = {}
        /\ Exact(p) => Exact(a.p)
        /\ Current(p) => Current(a.p)
    <3>1. Added(p, from, duration, count, a)
      BY <1>2, SpanAdded
    <3> HIDE DEF a
    <3> QED BY <3>1 DEF Added
  <2>2. p.start <= from
    BY <1>2 DEF span_input_check
  <2>3. Exact(p) => \A t \in s.start .. (s.last - 1) : Use(p.spans, t) + s.planned <= p.total
    BY <1>2, <2>2, AdmittedFits
  <2>4. p.counter + 1 \notin DOMAIN p.spans
    BY DEF Sound, Bookings
  <2> HIDE DEF s, a
  <2>5. Booked(p, a.p)
    BY <2>1, <2>3, <2>4 DEF Booked
  <2> QED BY <2>1, <2>5 DEF Steps, Advances, Sought, a
<1> QED BY <1>1, <1>2

\* removed,
LEMMA RemoveSteps ==
    ASSUME NEW p, Sound(p), NEW id
    PROVE  Steps(p, planner_rem_span(p, id).p)
<1> DEFINE a == planner_rem_span(p, id)
<1>1. CASE id \notin DOMAIN p.spans
  <2>1. a.p = p
    BY <1>1 DEF planner_rem_span
  <2> QED BY <2>1 DEF Steps, Advances
<1>2. CASE id \in DOMAIN p.spans
  <2>1. /\ Sound(a.p) /\ a.p.spans = Restrict(p.spans, DOMAIN p.spans \ {id})
        /\ a.p.total = p.total /\ a.p.start = p.start /\ a.p.end = p.end
        /\ a.p.tracked = {}
        /\ Exact(p) => Exact(a.p)
        /\ Current(p) => Current(a.p)
    BY <1>2, SpanRemoved
  <2> HIDE DEF a
  <2> QED BY <1>2, <2>1 DEF Steps, Advances, Released, Sought, a
<1> QED BY <1>1, <1>2

\* or reduced.
LEMMA ReduceSteps ==
    ASSUME NEW p, Sound(p), NEW id, NEW d \in Nat
    PROVE  Steps(p, planner_reduce_span(p, id, d).p)
<1> DEFINE a == planner_reduce_span(p, id, d)
<1>1. CASE a.p = p
  BY <1>1 DEF Steps, Advances
<1>2. CASE a.p = planner_rem_span(p, id).p
  BY <1>2, RemoveSteps
<1>3. CASE id \in DOMAIN p.spans /\ d # 0 /\ d # p.spans[id].planned /\ ~(d > p.spans[id].planned)
  <2>1. p.spans[id].planned \in Nat
    BY <1>3, BookingTypes DEF Sound
  <2>2. d < p.spans[id].planned
    BY <1>3, <2>1
  <2>3. /\ Sound(a.p) /\ a.p.spans = [p.spans EXCEPT ![id].planned = @ - d]
        /\ a.p.total = p.total /\ a.p.start = p.start /\ a.p.end = p.end
        /\ a.p.tracked = {}
        /\ Exact(p) => Exact(a.p)
        /\ Current(p) => Current(a.p)
    BY <1>3, <2>2, SpanReduced
  <2> DEFINE n == p.spans[id].planned - d
  <2>4. n \in Nat /\ n < p.spans[id].planned
    BY <1>3, <2>1, <2>2
  <2>5. a.p.spans = [p.spans EXCEPT ![id].planned = n]
    BY <1>3, <2>3
  <2> HIDE DEF a, n
  <2>6. Lowered(p, a.p)
    BY <1>3, <2>4, <2>5 DEF Lowered
  <2> QED BY <2>3, <2>6 DEF Steps, Advances, Sought, a
<1> QED BY <1>1, <1>2, <1>3 DEF planner_reduce_span

(***************************************************************************)
(* The multi-planner and its client.                                       *)
(***************************************************************************)
MultiFields == {"types", "planners", "spans", "counter", "iter"}

FaultFields == {"leak", "clamped", "stale", "copied", "moved"}

\* The planner of a type is sound, over the whole plan, and exact unless an update
\* has left less than is planned; its min-time tree is known unless an update has
\* changed the total or the planner is a copy made in the middle of an iteration.
PlannerOK(ty) ==
    LET p == m.planners[ty]
    IN  /\ Sound(p) /\ p.start = 0 /\ p.end = PlanEnd
        /\ ty \notin faults.clamped => Exact(p)
        /\ ty \notin faults.clamped \cup faults.stale \cup faults.copied => Current(p) /\ Sought(p)

\* The query an iteration goes on with.
IterOK(iter, types) ==
    /\ DOMAIN iter = {"duration", "counts"}
    /\ \A ty \in types : iter.counts[ty] \in Nat

\* The invariant of the planners.
PInv ==
    /\ DOMAIN m = MultiFields /\ DOMAIN faults = FaultFields
    /\ ToSet(m.types) = DOMAIN m.planners /\ DOMAIN m.planners \subseteq Types
    /\ m.types \in Seq(Types) /\ m.types # << >>
    /\ IterOK(m.iter, DOMAIN m.planners)
    /\ faults.clamped \subseteq DOMAIN m.planners
    /\ held \subseteq DOMAIN m.spans
    /\ \A ty \in DOMAIN m.planners : PlannerOK(ty)

\* The planners of multi-planner mm take a step each: as to the points and spans,
AllAdvance(mm) ==
    /\ DOMAIN mm = MultiFields /\ mm.types = m.types
    /\ DOMAIN mm.planners = DOMAIN m.planners
    /\ IterOK(mm.iter, DOMAIN m.planners)
    /\ \A ty \in DOMAIN m.planners : Advances(m.planners[ty], mm.planners[ty])

\* and in all.
AllStep(mm) ==
    /\ AllAdvance(mm)
    /\ \A ty \in DOMAIN m.planners : Steps(m.planners[ty], mm.planners[ty])

\* What is settled keeps its types, its planners and the spans that are held.
LEMMA SettledFields ==
    ASSUME NEW mm, DOMAIN mm = MultiFields, NEW ids
    PROVE  LET r == Settled(mm, ids)
           IN  /\ IterOK(mm.iter, DOMAIN mm.planners) => IterOK(r.iter, DOMAIN mm.planners)
               /\ DOMAIN r = MultiFields /\ r.types = mm.types /\ r.planners = mm.planners
               /\ DOMAIN r.spans = DOMAIN mm.spans \cap ids
<1> DEFINE r == Settled(mm, ids)
           I == IF get_planner_at(mm, 1).iter_set THEN mm.iter
                ELSE [duration |-> 0, counts |-> [ty \in DOMAIN mm.planners |-> 0]]
           S == Restrict(mm.spans, DOMAIN mm.spans \cap ids)
<1>1. r = [mm EXCEPT !.iter = I, !.spans = S]
  BY DEF Settled
<1>2. DOMAIN S = DOMAIN mm.spans \cap ids
  BY DEF Restrict
<1>3. IterOK(mm.iter, DOMAIN mm.planners) => IterOK(I, DOMAIN mm.planners)
  BY DEF IterOK
<1> HIDE DEF I, S
<1>4. /\ DOMAIN r = MultiFields /\ r.types = mm.types /\ r.planners = mm.planners
      /\ r.spans = S /\ r.iter = I
  BY <1>1 DEF MultiFields
<1> QED BY <1>2, <1>3, <1>4

\* What planner_multi_add_span does to the planners, also when one of them refuses,
LEMMA AddedAll ==
    ASSUME PInv, NEW r \in Requests
    PROVE  LET a == planner_multi_add_span(m, r.start, r.duration, r.counts)
           IN  /\ AllStep(a.m) /\ DOMAIN m.spans \subseteq DOMAIN a.m.spans
               /\ a.id # -1 => a.id \in DOMAIN a.m.spans
<1> DEFINE add(i) == planner_add_span(get_planner_at(m, i), r.start, r.duration,
                                      r.counts[m.types[i]])
           refuse == {i \in DOMAIN m.types : add(i).id = -1}
           done   == IF refuse = {} THEN DOMAIN m.types ELSE 1..(Min(refuse) - 1)
           Q == [ty \in DOMAIN m.planners |->
                  IF \E i \in done : m.types[i] = ty
                    THEN add(CHOOSE i \in done : m.types[i] = ty).p ELSE m.planners[ty]]
           planned == [m EXCEPT !.counter = @ + 1, !.planners = Q]
           S == [j \in DOMAIN m.spans \cup {m.counter} |->
                   IF j = m.counter THEN [i \in DOMAIN m.types |-> add(i).id] ELSE m.spans[j]]
           a == planner_multi_add_span(m, r.start, r.duration, r.counts)
<1>1. /\ r.start \in Nat /\ r.duration \in Nat
      /\ \A ty \in DOMAIN m.planners : r.counts[ty] \in Nat
  <2>1. r \in [start: Nat, duration: Nat, counts: [Types -> Nat]]
    BY PlannerAssumption DEF Types
  <2> QED BY <2>1 DEF PInv
<1>2. ASSUME NEW ty \in DOMAIN m.planners PROVE Steps(m.planners[ty], Q[ty])
  <2>0. Sound(m.planners[ty])
    BY DEF PInv, PlannerOK
  <2>1. CASE \E i \in done : m.types[i] = ty
    <3> DEFINE i == CHOOSE i \in done : m.types[i] = ty
    <3>1. m.types[i] = ty
      <4> HIDE DEF done
      <4> QED BY <2>1
    <3>2. Q[ty] = add(i).p
      <4> HIDE DEF done, add
      <4> QED BY <2>1
    <3> HIDE DEF i, Q
    <3>3. add(i) = planner_add_span(m.planners[ty], r.start, r.duration, r.counts[ty])
      BY <3>1 DEF get_planner_at
    <3> HIDE DEF add
    <3> QED BY <1>1, <2>0, <3>2, <3>3, AddSteps
  <2>2. CASE ~\E i \in done : m.types[i] = ty
    <3>1. Q[ty] = m.planners[ty]
      <4> HIDE DEF done, add
      <4> QED BY <2>2
    <3> HIDE DEF Q
    <3> QED BY <2>0, <3>1 DEF Steps, Advances
  <2> QED BY <2>1, <2>2
<1>3. DOMAIN Q = DOMAIN m.planners /\ DOMAIN S = DOMAIN m.spans \cup {m.counter}
  OBVIOUS
<1>4. a = IF refuse # {} THEN [m |-> planned, id |-> -1]
          ELSE [m |-> [planned EXCEPT !.spans = S], id |-> m.counter]
  <2>1. planned.spans = m.spans
    <3> HIDE DEF Q
    <3> QED BY DEF PInv, MultiFields
  <2> QED BY <2>1 DEF planner_multi_add_span
<1> HIDE DEF Q, S, refuse
<1>5. /\ DOMAIN a.m = MultiFields /\ a.m.types = m.types /\ a.m.planners = Q
      /\ a.m.iter = m.iter
      /\ a.m.spans = IF refuse # {} THEN m.spans ELSE S
      /\ a.id = IF refuse # {} THEN -1 ELSE m.counter
  BY <1>4 DEF PInv, MultiFields
<1> HIDE DEF a
<1>6. AllStep(a.m)
  BY <1>2, <1>3, <1>5 DEF AllStep, AllAdvance, Steps, PInv
<1> QED BY <1>3, <1>5, <1>6 DEF a

\* what planner_multi_rem_span does,
LEMMA RemovedAll ==
    ASSUME PInv, NEW id \in held
    PROVE  LET a == planner_multi_rem_span(m, id)
           IN  /\ AllStep(a.m) /\ DOMAIN m.spans \ {id} \subseteq DOMAIN a.m.spans
               /\ ~a.ok => DOMAIN m.spans \subseteq DOMAIN a.m.spans
<1> DEFINE parts == m.spans[id]
           rem(i) == planner_rem_span(get_planner_at(m, i), parts[i])
           fail  == {i \in DOMAIN parts : parts[i] # -1 /\ ~rem(i).ok}
           done  == {i \in DOMAIN parts : parts[i] # -1 /\ \A k \in fail : i < k}
           Q == [ty \in DOMAIN m.planners |->
                   IF \E i \in done : m.types[i] = ty
                     THEN rem(CHOOSE i \in done : m.types[i] = ty).p ELSE m.planners[ty]]
           m1 == [m EXCEPT !.planners = Q]
           S == Restrict(m.spans, DOMAIN m.spans \ {id})
           a == planner_multi_rem_span(m, id)
<1>1. id \in DOMAIN m.spans
  BY DEF PInv
<1>2. ASSUME NEW ty \in DOMAIN m.planners PROVE Steps(m.planners[ty], Q[ty])
  <2>0. Sound(m.planners[ty])
    BY DEF PInv, PlannerOK
  <2>1. CASE \E i \in done : m.types[i] = ty
    <3> DEFINE i == CHOOSE i \in done : m.types[i] = ty
    <3>1. m.types[i] = ty
      <4> HIDE DEF done
      <4> QED BY <2>1
    <3>2. Q[ty] = rem(i).p
      <4> HIDE DEF done, rem
      <4> QED BY <2>1
    <3> HIDE DEF i, Q
    <3>3. rem(i) = planner_rem_span(m.planners[ty], parts[i])
      BY <3>1 DEF get_planner_at
    <3> HIDE DEF rem
    <3> QED BY <2>0, <3>2, <3>3, RemoveSteps
  <2>2. CASE ~\E i \in done : m.types[i] = ty
    <3>1. Q[ty] = m.planners[ty]
      <4> HIDE DEF done, rem
      <4> QED BY <2>2
    <3> HIDE DEF Q
    <3> QED BY <2>0, <3>1 DEF Steps, Advances
  <2> QED BY <2>1, <2>2
<1>3. DOMAIN Q = DOMAIN m.planners /\ DOMAIN S = DOMAIN m.spans \ {id}
  BY DEF Restrict
<1>4. a = IF fail # {} THEN [m |-> m1, ok |-> FALSE]
          ELSE [m |-> [m1 EXCEPT !.spans = S], ok |-> TRUE]
  <2>1. m1.spans = m.spans
    <3> HIDE DEF Q
    <3> QED BY DEF PInv, MultiFields
  <2> QED BY <1>1, <2>1 DEF planner_multi_rem_span
<1> HIDE DEF Q, S, fail
<1>5. /\ DOMAIN a.m = MultiFields /\ a.m.types = m.types /\ a.m.planners = Q
      /\ a.m.iter = m.iter
      /\ a.m.spans = IF fail # {} THEN m.spans ELSE S
  BY <1>4 DEF PInv, MultiFields
<1>6. ~a.ok => fail # {}
  <2> HIDE DEF m1
  <2> QED BY <1>4
<1> HIDE DEF a
<1>7. AllStep(a.m)
  BY <1>2, <1>3, <1>5 DEF AllStep, AllAdvance, Steps, PInv
<1> QED BY <1>3, <1>5, <1>6, <1>7 DEF a

\* and what planner_multi_reduce_span does.
LEMMA ReducedAll ==
    ASSUME PInv, NEW id \in held, NEW counts, \A ty \in DOMAIN counts : counts[ty] \in Nat
    PROVE  LET a == planner_multi_reduce_span(m, id, counts)
           IN  /\ AllStep(a.m) /\ DOMAIN m.spans \ {id} \subseteq DOMAIN a.m.spans
               /\ ~a.removed => DOMAIN m.spans \subseteq DOMAIN a.m.spans
<1> DEFINE parts == m.spans[id]
           amount(i) == IF m.types[i] \in DOMAIN counts THEN counts[m.types[i]] ELSE 0
           red(i) == planner_reduce_span(get_planner_at(m, i), parts[i], amount(i))
           fail   == {i \in DOMAIN m.types :
                        ~red(i).ok /\ planner_is_active_span(get_planner_at(m, i), parts[i])}
           first  == {i \in DOMAIN m.types : m.types[i] \in DOMAIN counts}
           before(i, k) == IF i \in first THEN k \in first => i < k
                                          ELSE k \notin first /\ i < k
           done   == {i \in DOMAIN m.types : \A k \in fail : i # k /\ before(i, k)}
           parts1 == [i \in DOMAIN parts |->
                        IF i \in done /\ red(i).removed THEN -1 ELSE parts[i]]
           gone   == fail = {} /\ \A i \in DOMAIN parts : parts1[i] = -1
           Q == [ty \in DOMAIN m.planners |->
                   IF \E i \in done : m.types[i] = ty
                     THEN red(CHOOSE i \in done : m.types[i] = ty).p ELSE m.planners[ty]]
           S == IF gone THEN Restrict(m.spans, DOMAIN m.spans \ {id})
                ELSE [m.spans EXCEPT ![id] = parts1]
           a == planner_multi_reduce_span(m, id, counts)
<1>1. id \in DOMAIN m.spans
  BY DEF PInv
<1>2. ASSUME NEW ty \in DOMAIN m.planners PROVE Steps(m.planners[ty], Q[ty])
  <2>0. Sound(m.planners[ty])
    BY DEF PInv, PlannerOK
  <2>1. CASE \E i \in done : m.types[i] = ty
    <3> DEFINE i == CHOOSE i \in done : m.types[i] = ty
    <3>1. m.types[i] = ty
      <4> HIDE DEF done
      <4> QED BY <2>1
    <3>2. Q[ty] = red(i).p
      <4> HIDE DEF done, red
      <4> QED BY <2>1
    <3> HIDE DEF i, Q
    <3>3. red(i) = planner_reduce_span(m.planners[ty], parts[i], amount(i)) /\ amount(i) \in Nat
      BY <3>1 DEF get_planner_at
    <3> HIDE DEF red, amount
    <3> QED BY <2>0, <3>2, <3>3, ReduceSteps
  <2>2. CASE ~\E i \in done : m.types[i] = ty
    <3>1. Q[ty] = m.planners[ty]
      <4> HIDE DEF done, red
      <4> QED BY <2>2
    <3> HIDE DEF Q
    <3> QED BY <2>0, <3>1 DEF Steps, Advances
  <2> QED BY <2>1, <2>2
<1>3. a = [m |-> [m EXCEPT !.planners = Q, !.spans = S], ok |-> fail = {}, removed |-> gone]
  BY <1>1 DEF planner_multi_reduce_span
<1>4. DOMAIN Q = DOMAIN m.planners
  OBVIOUS
<1>5. DOMAIN S = IF gone THEN DOMAIN m.spans \ {id} ELSE DOMAIN m.spans
  <2> HIDE DEF gone, parts1
  <2> QED BY DEF Restrict
<1> HIDE DEF Q, S, gone, fail
<1>6. /\ DOMAIN a.m = MultiFields /\ a.m.types = m.types /\ a.m.planners = Q
      /\ a.m.iter = m.iter
      /\ a.m.spans = S
  <2> DEFINE o == [m EXCEPT !.planners = Q, !.spans = S]
  <2>1. a.m = o
    <3> HIDE DEF a
    <3> QED BY <1>3, Zenon
  <2> HIDE DEF a
  <2> QED BY <2>1 DEF PInv, MultiFields
<1>7. a.removed = gone
  BY <1>3
<1> HIDE DEF a
<1>8. AllStep(a.m)
  BY <1>2, <1>4, <1>6 DEF AllStep, AllAdvance, Steps, PInv
<1> QED BY <1>1, <1>5, <1>6, <1>7, <1>8 DEF a

\* The first type has a planner.
LEMMA FirstType ==
    ASSUME PInv
    PROVE  /\ 1 \in DOMAIN m.types /\ m.types[1] \in DOMAIN m.planners /\ m.types[1] \in Types
           /\ get_planner_at(m, 1) = m.planners[m.types[1]]
           /\ Sound(get_planner_at(m, 1))
           /\ get_planner_at(m, 1).start = 0 /\ get_planner_at(m, 1).end = PlanEnd
<1>1. 1 \in DOMAIN m.types
  <2>1. m.types \in Seq(Types) /\ m.types # << >>
    BY DEF PInv
  <2> QED BY <2>1
<1>2. m.types[1] \in DOMAIN m.planners /\ m.types[1] \in Types
  BY <1>1 DEF PInv, ToSet
<1> QED BY <1>1, <1>2 DEF PInv, PlannerOK, get_planner_at

\* The types of a query.
QueryTypes(r) ==
    /\ r.on_or_after \in Nat /\ r.duration \in Nat /\ r.counts[m.types[1]] \in Nat
    /\ \A ty \in DOMAIN m.planners : r.counts[ty] \in Nat

\* The queries of the client have these types.
LEMMA QueryTyped ==
    ASSUME PInv, NEW r \in Queries
    PROVE  QueryTypes(r)
<1>1. r \in [on_or_after: Nat, duration: Nat, counts: [Types -> Nat]]
  BY PlannerAssumption DEF Types
<1>2. m.types[1] \in Types /\ DOMAIN m.planners \subseteq Types
  BY FirstType DEF PInv
<1> QED BY <1>1, <1>2 DEF QueryTypes

\* The planner of the first type is replaced.
LEMMA FirstReplaced ==
    ASSUME PInv, NEW mm, DOMAIN mm = MultiFields, mm.types = m.types, mm.planners = m.planners,
           mm.spans = m.spans,
           IterOK(mm.iter, DOMAIN m.planners),
           NEW q, Kept(get_planner_at(m, 1), q)
    PROVE  LET r == SetPlanner(mm, 1, q)
           IN  AllStep(r) /\ r.spans = m.spans
<1> DEFINE r == SetPlanner(mm, 1, q)
           x == m.types[1]
           Q == [m.planners EXCEPT ![x] = q]
<1>1. r = [mm EXCEPT !.planners = Q]
  BY DEF SetPlanner, MultiFields
<1>2. /\ x \in DOMAIN m.planners /\ DOMAIN Q = DOMAIN m.planners /\ Q[x] = q
      /\ \A ty \in DOMAIN m.planners : ty # x => Q[ty] = m.planners[ty]
  BY FirstType
<1> HIDE DEF Q
<1>3. /\ DOMAIN r = MultiFields /\ r.types = m.types /\ r.planners = Q /\ r.spans = m.spans
      /\ r.iter = mm.iter
  BY <1>1 DEF MultiFields
<1> HIDE DEF r
<1>4. ASSUME NEW ty \in DOMAIN m.planners PROVE Steps(m.planners[ty], r.planners[ty])
  <2>1. CASE ty = x
    <3>1. Steps(get_planner_at(m, 1), q)
      BY KeptSteps
    <3> QED BY <1>2, <1>3, <2>1, <3>1 DEF get_planner_at
  <2>2. CASE ty # x
    <3>1. Sound(m.planners[ty])
      BY DEF PInv, PlannerOK
    <3>2. Steps(m.planners[ty], m.planners[ty])
      BY <3>1, KeptSelf, KeptSteps
    <3> QED BY <1>2, <1>3, <2>2, <3>2
  <2> QED BY <2>1, <2>2
<1>5. AllStep(r)
  BY <1>2, <1>3, <1>4 DEF AllStep, AllAdvance, Steps
<1> QED BY <1>3, <1>5 DEF r

\* A query replaces the planner of the first type and remembers its amounts.
LEMMA AskedFirst ==
    ASSUME PInv, NEW r \in Queries
    PROVE  LET mm == [m EXCEPT !.iter = [duration |-> r.duration, counts |-> r.counts]]
           IN  \E q : Kept(get_planner_at(m, 1), q) /\ Ask(r).m = SetPlanner(mm, 1, q)
<1> DEFINE p == get_planner_at(m, 1)
           first == planner_avail_time_first(p, r.on_or_after, r.duration, r.counts[m.types[1]])
           mm == [m EXCEPT !.iter = [duration |-> r.duration, counts |-> r.counts]]
<1>1. QueryTypes(r)
  BY QueryTyped
<1>2. Sound(p)
  BY FirstType
<1>3. Kept(p, first.p)
  <2> HIDE DEF p
  <2> QED BY <1>1, <1>2, FirstKeeps DEF QueryTypes
<1>4. Ask(r) = Iterate(mm, first, r.duration, r.counts)
  BY DEF Ask, planner_multi_avail_time_first
<1> HIDE DEF mm, first
<1>5. PICK q : /\ Kept(first.p, q)
               /\ Iterate(mm, first, r.duration, r.counts).m = SetPlanner(mm, 1, q)
  BY <1>3, Iterated DEF Kept
<1>6. Kept(p, q)
  BY <1>3, <1>5, KeptTwice
<1> QED BY <1>4, <1>5, <1>6 DEF mm

\* Asking on replaces the planner of the first type.
LEMMA AskedNext ==
    ASSUME PInv
    PROVE  \E q : /\ Kept(get_planner_at(m, 1), q)
                  /\ planner_multi_avail_time_next(m).m = SetPlanner(m, 1, q)
<1> DEFINE p == get_planner_at(m, 1)
           first == planner_avail_time_next(p)
           a == planner_multi_avail_time_next(m)
<1>1. Sound(p)
  BY FirstType
<1>2. Kept(p, first.p)
  <2> HIDE DEF p
  <2> QED BY <1>1, NextKept
<1>3. a = Iterate(m, first, m.iter.duration, m.iter.counts)
  BY DEF planner_multi_avail_time_next
<1> HIDE DEF first, a
<1>4. PICK q : Kept(first.p, q) /\ a.m = SetPlanner(m, 1, q)
  BY <1>2, <1>3, Iterated DEF Kept
<1>5. Kept(p, q)
  BY <1>2, <1>4, KeptTwice
<1> QED BY <1>4, <1>5 DEF a

\* What a query does to the planners,
LEMMA AskedFirstAll ==
    ASSUME PInv, NEW r \in Queries
    PROVE  AllStep(Ask(r).m) /\ Ask(r).m.spans = m.spans
<1> DEFINE mm == [m EXCEPT !.iter = [duration |-> r.duration, counts |-> r.counts]]
<1>1. PICK q : Kept(get_planner_at(m, 1), q) /\ Ask(r).m = SetPlanner(mm, 1, q)
  BY AskedFirst
<1>2. /\ DOMAIN mm = MultiFields /\ mm.types = m.types /\ mm.planners = m.planners
      /\ mm.spans = m.spans /\ mm.iter = [duration |-> r.duration, counts |-> r.counts]
  BY DEF PInv, MultiFields
<1>3. IterOK(mm.iter, DOMAIN m.planners)
  BY <1>2, QueryTyped DEF IterOK, QueryTypes
<1> HIDE DEF mm
<1> QED BY <1>1, <1>2, <1>3, FirstReplaced

\* what asking on does,
LEMMA AskedNextAll ==
    ASSUME PInv
    PROVE  LET a == planner_multi_avail_time_next(m)
           IN  AllStep(a.m) /\ a.m.spans = m.spans
<1>1. PICK q : /\ Kept(get_planner_at(m, 1), q)
               /\ planner_multi_avail_time_next(m).m = SetPlanner(m, 1, q)
  BY AskedNext
<1>2. DOMAIN m = MultiFields /\ IterOK(m.iter, DOMAIN m.planners)
  BY DEF PInv
<1> QED BY <1>1, <1>2, FirstReplaced

\* and what cloning the multi-planner does.
LEMMA CopiedAll ==
    ASSUME PInv
    PROVE  LET r == planner_multi_copy(m)
           IN  /\ AllAdvance(r) /\ r.spans = m.spans
               /\ \A ty \in DOMAIN m.planners : m.planners[ty].tracked = {} =>
                     Current(r.planners[ty]) /\ Sought(r.planners[ty])
<1> DEFINE r == planner_multi_copy(m)
           Q == [ty \in DOMAIN m.planners |-> planner_copy(m.planners[ty])]
<1>1. r = [m EXCEPT !.planners = Q]
  BY DEF planner_multi_copy
<1>2. DOMAIN Q = DOMAIN m.planners /\ \A ty \in DOMAIN Q : Q[ty] = planner_copy(m.planners[ty])
  OBVIOUS
<1> HIDE DEF Q
<1>3. /\ DOMAIN r = MultiFields /\ r.types = m.types /\ r.planners = Q /\ r.spans = m.spans
      /\ r.iter = m.iter
  BY <1>1 DEF PInv, MultiFields
<1> HIDE DEF r
<1>4. ASSUME NEW ty \in DOMAIN m.planners
      PROVE  /\ Advances(m.planners[ty], r.planners[ty])
             /\ m.planners[ty].tracked = {} =>
                   Current(r.planners[ty]) /\ r.planners[ty].tracked = {}
  <2> DEFINE p == m.planners[ty]
             q == r.planners[ty]
  <2>1. Sound(p)
    BY DEF PInv, PlannerOK
  <2>2. /\ Sound(q) /\ q.points = p.points /\ q.spans = p.spans /\ q.total = p.total
        /\ q.start = p.start /\ q.end = p.end /\ q.tracked = p.tracked
        /\ p.tracked = {} => Current(q)
    BY <1>2, <1>3, <2>1, Copied
  <2> HIDE DEF p, q
  <2>3. Exact(p) => Exact(q)
    BY <2>2 DEF Exact, Times
  <2> QED BY <2>2, <2>3 DEF Advances, p, q
<1>5. AllAdvance(r)
  BY <1>2, <1>3, <1>4 DEF AllAdvance, PInv
<1> QED BY <1>3, <1>4, <1>5 DEF r, Sought

(***************************************************************************)
(* The refinement of the timeline, step by step.                           *)
(***************************************************************************)
\* A step of the planner of a type is a step of its timeline or a stutter.
LEMMA StepRefines ==
    ASSUME PInv, AllAdvance(m'), faults'.clamped = faults.clamped, NEW ty \in Types
    PROVE  Resource(ty)!TNext \/ UNCHANGED Resource(ty)!tvars
<1> USE DEF Resource!TNext, Resource!tvars
<1>0. DOMAIN m'.planners = DOMAIN m.planners
  BY DEF AllAdvance
<1>1. CASE ty \notin DOMAIN m.planners
  BY <1>0, <1>1
<1>2. CASE ty \in DOMAIN m.planners
  <2> DEFINE p == m.planners[ty]
             r == m'.planners[ty]
  <2>1. Advances(p, r)
    BY <1>2 DEF AllAdvance
  <2>2. r.total = p.total
    BY <2>1 DEF Advances
  <2>3. CASE r.spans = p.spans
    BY <1>0, <1>2, <2>2, <2>3
  <2>4. CASE Booked(p, r)
    <3>1. PICK id, s : /\ id \notin DOMAIN p.spans /\ r.spans = WithSpan(p.spans, id, s)
                       /\ Exact(p) => \A t \in s.start .. (s.last - 1) :
                                         Use(p.spans, t) + s.planned <= p.total
      BY <2>4 DEF Booked
    <3>2. DOMAIN r.spans = DOMAIN p.spans \cup {id} /\ r.spans[id] = s
      BY <3>1 DEF WithSpan
    <3>3. Restrict(r.spans, DOMAIN p.spans) = p.spans
      <4>1. p.spans = [i \in DOMAIN p.spans |-> p.spans[i]]
        BY <1>2 DEF PInv, PlannerOK, Sound, Bookings
      <4>2. \A i \in DOMAIN p.spans : r.spans[i] = p.spans[i]
        BY <3>1 DEF WithSpan
      <4> QED BY <4>1, <4>2 DEF Restrict
    <3>4. ty \in faults.clamped \/ Resource(ty)!Fits(p.spans, s, p.total)
      <4> SUFFICES ASSUME ty \notin faults.clamped PROVE Resource(ty)!Fits(p.spans, s, p.total)
        OBVIOUS
      <4>1. Exact(p)
        BY <1>2 DEF PInv, PlannerOK
      <4> HIDE DEF p
      <4> QED BY <3>1, <4>1, UsedIsUse DEF Resource!Fits
    <3>5. Resource(ty)!Book
      BY <1>0, <1>2, <2>2, <3>1, <3>2, <3>3, <3>4 DEF Resource!Book, Resource!Restrict, Restrict
    <3> QED BY <3>5
  <2>5. CASE Released(p, r)
    <3>1. Resource(ty)!Release
      BY <1>0, <1>2, <2>2, <2>5 DEF Released, Resource!Release, Resource!Restrict, Restrict
    <3> QED BY <3>1
  <2>6. CASE Lowered(p, r)
    <3>1. PICK id \in DOMAIN p.spans, n \in Nat :
             n < p.spans[id].planned /\ r.spans = [p.spans EXCEPT ![id].planned = n]
      BY <2>6 DEF Lowered
    <3>2. r.spans[id].planned = n /\ DOMAIN r.spans = DOMAIN p.spans
      <4>1. p.spans[id] \in Span
        BY <1>2 DEF PInv, PlannerOK, Sound, Bookings
      <4> QED BY <3>1, <4>1 DEF Span
    <3>3. Resource(ty)!Reduce
      BY <1>0, <1>2, <2>2, <3>1, <3>2 DEF Resource!Reduce
    <3> QED BY <3>3
  <2> QED BY <2>1, <2>3, <2>4, <2>5, <2>6 DEF Advances
<1> QED BY <1>1, <1>2

\* A set of bookings fits a capacity when no point of its chart has more: when
\* something is planned at an instant, it is planned at the point in force.
LEMMA PointsCover ==
    ASSUME NEW ty, NEW p, Sound(p), NEW cap \in Nat
    PROVE  Resource(ty)!Covers(p.spans, cap) <=> \A t \in Times(p) : p.points[t].scheduled <= cap
<1>1. /\ \A i \in DOMAIN p.spans : /\ p.spans[i].start \in Nat /\ p.spans[i].last \in Nat
                                   /\ p.start <= p.spans[i].start /\ p.spans[i].last <= p.end
      /\ \A t : IsFiniteSet(InUse(p.spans, t))
  BY BookingTypes DEF Sound, Bookings
<1>2. ASSUME Resource(ty)!Covers(p.spans, cap), NEW t \in Times(p)
      PROVE  p.points[t].scheduled <= cap
  <2>1. p.points[t].scheduled = Use(p.spans, t) /\ t \in Nat
    BY SoundTypes DEF Sound, Charts
  <2>2. CASE InUse(p.spans, t) = {}
    <3>1. Use(p.spans, t) = 0
      BY <2>2, FS_EmptySet, SumFirst DEF Use
    <3> QED BY <2>1, <3>1
  <2>3. CASE InUse(p.spans, t) # {}
    <3>1. PICK i \in DOMAIN p.spans : p.spans[i].start <= t /\ t < p.spans[i].last
      BY <2>3 DEF InUse
    <3>2. t \in p.spans[i].start .. (p.spans[i].last - 1)
      BY <1>1, <2>1, <3>1
    <3>3. Resource(ty)!Used(p.spans, t) <= cap
      BY <1>2, <3>2 DEF Resource!Covers
    <3> QED BY <2>1, <3>3, UsedIsUse
  <2> QED BY <2>2, <2>3
<1>3. ASSUME \A t \in Times(p) : p.points[t].scheduled <= cap,
             NEW i \in DOMAIN p.spans, NEW t \in p.spans[i].start .. (p.spans[i].last - 1)
      PROVE  Resource(ty)!Used(p.spans, t) <= cap
  <2>1. t \in p.start .. p.end
    BY <1>1, SoundTypes
  <2>2. /\ get_state(p, t) \in Times(p)
        /\ p.points[get_state(p, t)].scheduled = Use(p.spans, t)
    BY <2>1, SoundAccounts
  <2> QED BY <1>3, <2>2, UsedIsUse
<1> QED BY <1>2, <1>3 DEF Resource!Covers

\* A planner without spans is the timeline at its start.
LEMMA FreshPlanner ==
    ASSUME NEW total \in Nat
    PROVE  LET p == planner_new(0, PlanEnd, total)
           IN  /\ Sound(p) /\ Exact(p) /\ Current(p) /\ Sought(p) /\ p.spans = [i \in {} |-> 0]
               /\ p.total \in Nat /\ p.start = 0 /\ p.end = PlanEnd
<1> DEFINE base == 0
           p == planner_new(base, PlanEnd, total)
<1>1. PlanEnd \in Nat /\ base \in Nat /\ base + PlanEnd = PlanEnd
  BY PlannerAssumption
<1> HIDE DEF base
<1>2. /\ Sound(p) /\ Exact(p) /\ Current(p)
      /\ p.spans = [i \in {} |-> 0] /\ p.total = total
      /\ p.start = base /\ p.end = base + PlanEnd
  <2>1. Sound(p) /\ Exact(p) /\ Current(p)
    BY <1>1, NewSound
  <2>2. p.spans = [i \in {} |-> 0] /\ p.total = total /\ p.start = base /\ p.end = base + PlanEnd
    BY DEF planner_new
  <2> QED BY <2>1, <2>2
<1>3. Sought(p)
  BY DEF Sought, planner_new
<1> HIDE DEF p
<1> QED BY <1>1, <1>2, <1>3 DEF base, p

\* What an update does to the planner of a type.
LEMMA UpdatedAll ==
    ASSUME PInv, NEW types, types # << >>, ToSet(types) \subseteq Types, NEW totals \in [Types -> Nat]
    PROVE  LET r == planner_multi_update(m, types, totals)
           IN  /\ DOMAIN r = MultiFields /\ r.types = types /\ r.spans = m.spans
               /\ IterOK(r.iter, ToSet(types))
               /\ DOMAIN r.planners = ToSet(types)
               /\ \A ty \in ToSet(types) :
                     IF ty \in DOMAIN m.planners
                       THEN r.planners[ty] = planner_update_total(m.planners[ty], totals[ty])
                       ELSE r.planners[ty] = planner_new(0, PlanEnd, totals[ty])
<1> DEFINE r == planner_multi_update(m, types, totals)
           p1 == get_planner_at(m, 1)
           update(ty) == IF ty \in DOMAIN m.planners
                           THEN planner_update_total(m.planners[ty], totals[ty])
                           ELSE planner_new(p1.start, p1.end - p1.start, totals[ty])
           Q == [ty \in ToSet(types) |-> update(ty)]
           C == [ty \in ToSet(types) |-> IF ty \in DOMAIN m.planners THEN m.iter.counts[ty] ELSE 0]
           o == [m EXCEPT !.types = types, !.planners = Q, !.iter.counts = C]
<1>1. p1.start = 0 /\ p1.end - p1.start = PlanEnd
  BY PlannerAssumption, FirstType
<1>2. r = o
  <2>1. m.iter = [m EXCEPT !.types = types, !.planners = Q].iter
    <3> HIDE DEF Q
    <3> QED BY DEF PInv, MultiFields
  <2> QED BY <2>1 DEF planner_multi_update
<1>3. /\ DOMAIN Q = ToSet(types)
      /\ \A ty \in ToSet(types) :
            IF ty \in DOMAIN m.planners
              THEN Q[ty] = planner_update_total(m.planners[ty], totals[ty])
              ELSE Q[ty] = planner_new(0, PlanEnd, totals[ty])
  BY <1>1
<1>4. \A ty \in ToSet(types) : C[ty] \in Nat
  BY DEF PInv, IterOK
<1> HIDE DEF Q, C
<1>5. /\ DOMAIN o = MultiFields /\ o.types = types /\ o.planners = Q /\ o.spans = m.spans
      /\ o.iter = [m.iter EXCEPT !.counts = C]
  BY DEF PInv, MultiFields
<1>6. IterOK(o.iter, ToSet(types))
  <2>1. DOMAIN m.iter = {"duration", "counts"}
    BY DEF PInv, IterOK
  <2> HIDE DEF o
  <2> QED BY <1>4, <1>5, <2>1 DEF IterOK
<1> HIDE DEF o
<1> QED BY <1>2, <1>3, <1>5, <1>6

\* An update of the totals: what the planner of each type is afterwards.
LEMMA UpdateKeeps ==
    ASSUME PInv, NEW types \in Seq(Types), types # << >>, ToSet(types) \subseteq Types,
           NEW totals \in NewTotals, Update(types, totals)
    PROVE  PInv' /\ \A ty \in Types : Resource(ty)!TNext \/ UNCHANGED Resource(ty)!tvars
<1> DEFINE r == planner_multi_update(m, types, totals)
           over(ty) == \E t \in Times(m.planners[ty]) : m.planners[ty].points[t].scheduled > totals[ty]
<1>0. totals \in [Types -> Nat] /\ PlanEnd \in Nat /\ 0 + PlanEnd = PlanEnd
  BY PlannerAssumption DEF Types
<1>1. /\ DOMAIN r = MultiFields /\ r.types = types /\ r.spans = m.spans
      /\ IterOK(r.iter, ToSet(types))
      /\ DOMAIN r.planners = ToSet(types)
      /\ \A ty \in ToSet(types) :
            IF ty \in DOMAIN m.planners
              THEN r.planners[ty] = planner_update_total(m.planners[ty], totals[ty])
              ELSE r.planners[ty] = planner_new(0, PlanEnd, totals[ty])
  BY <1>0, UpdatedAll
<1>2. m' = Settled(r, held) /\ held' = held
  BY DEF Update
<1> HIDE DEF r
<1>3. /\ DOMAIN m' = MultiFields /\ m'.types = types /\ m'.planners = r.planners
      /\ DOMAIN m'.spans = DOMAIN m.spans \cap held
      /\ IterOK(m'.iter, ToSet(types))
  BY <1>1, <1>2, SettledFields
<1>4. /\ DOMAIN faults' = FaultFields
      /\ faults'.clamped = (faults.clamped \cap ToSet(types))
                              \cup {ty \in ToSet(types) \cap DOMAIN m.planners : over(ty)}
      /\ faults'.stale = (faults.stale \cap ToSet(types))
                              \cup {ty \in ToSet(types) \cap DOMAIN m.planners :
                                       totals[ty] # m.planners[ty].total}
      /\ faults'.copied = faults.copied \cap ToSet(types)
  <2> DEFINE s == (faults.stale \cap ToSet(types))
                    \cup {ty \in ToSet(types) \cap DOMAIN m.planners :
                             totals[ty] # m.planners[ty].total}
             c == (faults.clamped \cap ToSet(types))
                    \cup {ty \in ToSet(types) \cap DOMAIN m.planners : over(ty)}
             v == faults.moved \/ (held # {} /\ types # m.types)
             k == faults.copied \cap ToSet(types)
  <2>1. faults' = [faults EXCEPT !.moved = v, !.stale = s, !.clamped = c, !.copied = k]
    BY DEF Update, PInv, FaultFields
  <2> HIDE DEF v, s, c, k
  <2>2. /\ DOMAIN faults' = FaultFields /\ faults'.clamped = c /\ faults'.stale = s
        /\ faults'.copied = k
    BY <2>1 DEF PInv, FaultFields
  <2> QED BY <2>2 DEF s, c, k
<1>5. ASSUME NEW ty \in ToSet(types) \cap DOMAIN m.planners
      PROVE  LET p == m.planners[ty]
                 q == m'.planners[ty]
             IN  /\ Sound(p) /\ q = planner_update_total(p, totals[ty]) /\ totals[ty] \in Nat
                 /\ Sound(q) /\ q.spans = p.spans /\ q.total = totals[ty]
                 /\ q.start = 0 /\ q.end = PlanEnd
                 /\ Exact(p) /\ ~over(ty) => Exact(q)
                 /\ Exact(p) /\ Current(p) /\ totals[ty] = p.total => Current(q)
                 /\ Exact(p) /\ Sought(p) /\ totals[ty] = p.total => Sought(q)
  <2> DEFINE p == m.planners[ty]
             q == planner_update_total(p, totals[ty])
  <2>1. Sound(p) /\ p.start = 0 /\ p.end = PlanEnd
    BY DEF PInv, PlannerOK
  <2>2. totals[ty] \in Nat
    BY <1>0 DEF PInv
  <2>3. /\ Sound(q) /\ q.spans = p.spans /\ q.total = totals[ty]
        /\ q.start = p.start /\ q.end = p.end
        /\ Exact(p) /\ (\A t \in Times(p) : p.points[t].scheduled <= totals[ty]) => Exact(q)
        /\ Exact(p) /\ Current(p) /\ totals[ty] = p.total => Current(q)
        /\ q.tracked = p.tracked /\ q.request = p.request /\ Times(q) = Times(p)
        /\ Exact(p) /\ totals[ty] = p.total =>
              \A t \in Times(p) : q.points[t].remaining = p.points[t].remaining
    <3> HIDE DEF p
    <3> QED BY <2>1, <2>2, TotalUpdated
  <2>4. m'.planners[ty] = q
    BY <1>1, <1>3
  <2>5. ~over(ty) => \A t \in Times(p) : p.points[t].scheduled <= totals[ty]
    <3>1. \A t \in Times(p) : p.points[t].scheduled \in Int
      <4> HIDE DEF p
      <4> QED BY <2>1, SoundTypes
    <3> QED BY <2>2, <3>1
  <2> HIDE DEF q, p, over
  <2>6. Exact(p) /\ Sought(p) /\ totals[ty] = p.total => Sought(q)
    BY <2>3 DEF Sought, Tracks, Enough
  <2> QED BY <2>1, <2>2, <2>3, <2>4, <2>5, <2>6 DEF p, q
<1>6. ASSUME NEW ty \in ToSet(types), ty \notin DOMAIN m.planners
      PROVE  LET q == m'.planners[ty]
             IN  /\ Sound(q) /\ Exact(q) /\ Current(q) /\ Sought(q) /\ q.spans = [i \in {} |-> 0]
                 /\ q.total \in Nat /\ q.start = 0 /\ q.end = PlanEnd
  <2>1. m'.planners[ty] = planner_new(0, PlanEnd, totals[ty]) /\ totals[ty] \in Nat
    BY <1>0, <1>1, <1>3, <1>6
  <2> QED BY <2>1, FreshPlanner
<1>7. PInv'
  <2>1. ASSUME NEW ty \in ToSet(types) PROVE PlannerOK(ty)'
    <3>1. CASE ty \in DOMAIN m.planners
      <4>1. /\ ty \notin faults.clamped => Exact(m.planners[ty])
            /\ ty \notin faults.clamped \cup faults.stale \cup faults.copied =>
                  Current(m.planners[ty]) /\ Sought(m.planners[ty])
        BY <3>1 DEF PInv, PlannerOK
      <4>2. ty \notin faults'.clamped => ty \notin faults.clamped /\ ~over(ty)
        <5> HIDE DEF over
        <5> QED BY <1>4, <3>1
      <4>3. ty \notin faults'.stale => ty \notin faults.stale /\ totals[ty] = m.planners[ty].total
        BY <1>4, <3>1
      <4>4. ty \notin faults'.copied => ty \notin faults.copied
        BY <1>4, <3>1
      <4> HIDE DEF over
      <4> QED BY <1>5, <3>1, <4>1, <4>2, <4>3, <4>4 DEF PlannerOK
    <3>2. CASE ty \notin DOMAIN m.planners
      BY <1>6, <3>2 DEF PlannerOK
    <3> QED BY <3>1, <3>2
  <2>2. held' \subseteq DOMAIN m'.spans
    BY <1>2, <1>3 DEF PInv
  <2>3. faults'.clamped \subseteq ToSet(types)
    BY <1>4
  <2> QED BY <1>1, <1>3, <1>4, <2>1, <2>2, <2>3 DEF PInv
<1>8. ASSUME NEW ty \in Types
      PROVE  Resource(ty)!TNext \/ UNCHANGED Resource(ty)!tvars
  <2> USE DEF Resource!TNext, Resource!tvars
  <2>0. DOMAIN m'.planners = ToSet(types)
    BY <1>1, <1>3
  <2>1. CASE ty \notin ToSet(types)
    <3>1. ty \notin faults'.clamped
      BY <1>4, <2>1
    <3>2. Resource(ty)!Clear
      BY <2>0, <2>1, <3>1 DEF Resource!Clear
    <3> QED BY <3>2
  <2>2. CASE ty \in ToSet(types) /\ ty \notin DOMAIN m.planners
    <3>1. ty \notin faults'.clamped
      BY <1>4, <2>2 DEF PInv
    <3>2. Resource(ty)!Clear
      BY <1>6, <2>0, <2>2, <3>1 DEF Resource!Clear
    <3> QED BY <3>2
  <2>3. CASE ty \in ToSet(types) /\ ty \in DOMAIN m.planners
    <3> DEFINE p == m.planners[ty]
               q == m'.planners[ty]
    <3>1. /\ Sound(p) /\ totals[ty] \in Nat /\ q.spans = p.spans /\ q.total = totals[ty]
      BY <1>5, <2>3
    <3>2. ty \in faults'.clamped <=> ty \in faults.clamped \/ over(ty)
      <4> HIDE DEF over
      <4> QED BY <1>4, <2>3
    <3>3. over(ty) <=> ~Resource(ty)!Covers(p.spans, totals[ty])
      <4>1. \A t \in Times(p) : p.points[t].scheduled \in Int
        <5> HIDE DEF p
        <5> QED BY <3>1, SoundTypes
      <4>2. Resource(ty)!Covers(p.spans, totals[ty])
              <=> \A t \in Times(p) : p.points[t].scheduled <= totals[ty]
        <5> HIDE DEF p
        <5> QED BY <3>1, PointsCover
      <4> QED BY <3>1, <4>1, <4>2
    <3>4. CASE totals[ty] = p.total
      <4>1. ~over(ty) \/ ty \in faults.clamped
        <5> SUFFICES ASSUME ty \notin faults.clamped PROVE ~over(ty)
          OBVIOUS
        <5>1. \A t \in Times(p) : p.points[t].scheduled \in Int /\ p.points[t].scheduled <= p.total
          <6>1. Exact(p)
            BY <2>3 DEF PInv, PlannerOK
          <6> HIDE DEF p
          <6> QED BY <3>1, <6>1, SoundTypes DEF Exact
        <5> QED BY <3>1, <3>4, <5>1
      <4> HIDE DEF over
      <4>2. ty \in faults'.clamped <=> ty \in faults.clamped
        BY <3>2, <4>1
      <4> QED BY <2>0, <2>3, <3>1, <3>4, <4>2
    <3>5. CASE totals[ty] # p.total
      <4> HIDE DEF over
      <4>1. Resource(ty)!Resize
        BY <2>0, <2>3, <3>1, <3>2, <3>3, <3>5 DEF Resource!Resize
      <4> QED BY <4>1
    <3> QED BY <3>4, <3>5
  <2> QED BY <2>1, <2>2, <2>3
<1> QED BY <1>7, <1>8

\* The invariant holds at the start, and the timelines are at theirs.
LEMMA Begins == PInit => PInv /\ \A ty \in Types : Resource(ty)!TInit
<1> SUFFICES ASSUME PInit PROVE PInv /\ \A ty \in Types : Resource(ty)!TInit
  OBVIOUS
<1> DEFINE Q == [ty \in Types |-> planner_new(0, PlanEnd, Total[ty])]
<1>1. /\ DOMAIN m = MultiFields /\ m.types = ResType /\ m.planners = Q
      /\ m.spans = [i \in {} |-> << >>] /\ m.iter = [duration |-> 0, counts |-> [ty \in Types |-> 0]]
  BY DEF PInit, planner_multi_new, MultiFields, Types
<1>2. /\ DOMAIN faults = FaultFields /\ faults.clamped = {} /\ faults.stale = {}
      /\ held = {}
  BY DEF PInit, FaultFields
<1>3. \A ty \in Types : Total[ty] \in Nat
  BY PlannerAssumption DEF Types
<1>4. ASSUME NEW ty \in Types
      PROVE  LET p == m.planners[ty]
             IN  /\ Sound(p) /\ Exact(p) /\ Current(p) /\ Sought(p) /\ p.spans = [i \in {} |-> 0]
                 /\ p.total \in Nat /\ p.start = 0 /\ p.end = PlanEnd
  <2>1. m.planners[ty] = planner_new(0, PlanEnd, Total[ty])
    BY <1>1
  <2> QED BY <1>3, <2>1, FreshPlanner
<1>5. DOMAIN m.planners = Types
  BY <1>1
<1> HIDE DEF Q
<1>6. ResType \in Seq(Types) /\ ResType # << >>
  BY PlannerAssumption DEF Types
<1>7. PInv
  BY <1>1, <1>2, <1>4, <1>5, <1>6 DEF PInv, PlannerOK, IterOK, Types
<1>8. \A ty \in Types : Resource(ty)!TInit
  BY <1>2, <1>4, <1>5 DEF Resource!TInit
<1> QED BY <1>7, <1>8

\* A reset of the multi-planner clears the timelines.
LEMMA ResetKeeps ==
    ASSUME PInv, Reset
    PROVE  PInv' /\ \A ty \in Types : Resource(ty)!TNext \/ UNCHANGED Resource(ty)!tvars
<1> DEFINE r == planner_multi_reset(m, 0, PlanEnd)
           Q == [ty \in DOMAIN m.planners |-> planner_new(0, PlanEnd, m.planners[ty].total)]
<1>1. r = [m EXCEPT !.planners = Q]
  <2>1. ~(PlanEnd < 1)
    BY PlannerAssumption
  <2> QED BY <2>1 DEF planner_multi_reset, planner_reset
<1>2. /\ DOMAIN Q = DOMAIN m.planners
      /\ \A ty \in DOMAIN Q : Q[ty] = planner_new(0, PlanEnd, m.planners[ty].total)
  OBVIOUS
<1> HIDE DEF Q
<1>3. DOMAIN r = MultiFields /\ r.types = m.types /\ r.planners = Q /\ r.iter = m.iter
  BY <1>1 DEF PInv, MultiFields
<1>4. m' = Settled(r, held') /\ held' = {}
  BY DEF Reset
<1> HIDE DEF r
<1>5. /\ DOMAIN m' = MultiFields /\ m'.types = m.types /\ m'.planners = Q
      /\ IterOK(m'.iter, DOMAIN m.planners)
  BY <1>2, <1>3, <1>4, SettledFields DEF PInv
<1>6. DOMAIN faults' = FaultFields /\ faults'.clamped = {} /\ faults'.stale = {}
  BY DEF Reset, PInv, FaultFields
<1>7. ASSUME NEW ty \in DOMAIN m.planners
      PROVE  LET p == m'.planners[ty]
             IN  /\ Sound(p) /\ Exact(p) /\ Current(p) /\ Sought(p) /\ p.spans = [i \in {} |-> 0]
                 /\ p.total \in Nat /\ p.start = 0 /\ p.end = PlanEnd
  <2>1. m'.planners[ty] = planner_new(0, PlanEnd, m.planners[ty].total)
    BY <1>2, <1>5
  <2>2. m.planners[ty].total \in Nat
    BY DEF PInv, PlannerOK, Sound
  <2> QED BY <2>1, <2>2, FreshPlanner
<1>8. PInv'
  BY <1>2, <1>4, <1>5, <1>6, <1>7 DEF PInv, PlannerOK
<1>9. \A ty \in Types : Resource(ty)!Clear
  BY <1>2, <1>5, <1>6, <1>7 DEF Resource!Clear
<1> QED BY <1>8, <1>9 DEF Resource!TNext

\* The calls that leave the types and what has been clamped as they are.
LEMMA AllStepKeeps ==
    ASSUME PInv, AllAdvance(m'), DOMAIN faults' = FaultFields, faults'.clamped = faults.clamped,
           \A ty \in DOMAIN m.planners \ (faults'.stale \cup faults'.copied) :
              \/ Current(m'.planners[ty]) /\ Sought(m'.planners[ty])
              \/ /\ ty \notin faults.stale \cup faults.copied
                 /\ Steps(m.planners[ty], m'.planners[ty]),
           held' \subseteq DOMAIN m'.spans
    PROVE  PInv' /\ \A ty \in Types : Resource(ty)!TNext \/ UNCHANGED Resource(ty)!tvars
<1>1. /\ DOMAIN m' = MultiFields /\ m'.types = m.types /\ DOMAIN m'.planners = DOMAIN m.planners
      /\ IterOK(m'.iter, DOMAIN m.planners)
      /\ \A ty \in DOMAIN m.planners : Advances(m.planners[ty], m'.planners[ty])
  BY DEF AllAdvance
<1>2. ASSUME NEW ty \in DOMAIN m.planners PROVE PlannerOK(ty)'
  <2> DEFINE p == m.planners[ty]
             q == m'.planners[ty]
  <2>1. /\ Sound(p) /\ p.start = 0 /\ p.end = PlanEnd
        /\ ty \notin faults.clamped => Exact(p)
        /\ ty \notin faults.clamped \cup faults.stale \cup faults.copied => Current(p) /\ Sought(p)
    BY DEF PInv, PlannerOK
  <2>2. /\ Sound(q) /\ q.start = p.start /\ q.end = p.end
        /\ Exact(p) => Exact(q)
    BY <1>1 DEF Advances
  <2>3. ty \notin faults'.clamped => Exact(q)
    <3> HIDE DEF p
    <3> QED BY <2>1, <2>2
  <2>4. ASSUME ty \notin faults'.clamped \cup faults'.stale \cup faults'.copied
        PROVE  Current(q) /\ Sought(q)
    <3>1. \/ Current(q) /\ Sought(q)
          \/ ty \notin faults.stale \cup faults.copied /\ Steps(p, q)
      BY <2>4
    <3>2. ty \notin faults.clamped
      BY <2>4
    <3> HIDE DEF p, q
    <3> QED BY <2>1, <3>1, <3>2 DEF Steps, Accurate
  <2> QED BY <2>1, <2>2, <2>3, <2>4 DEF PlannerOK
<1>3. PInv'
  BY <1>1, <1>2 DEF PInv
<1> QED BY <1>3, StepRefines

\* A call of the client on multi-planner m that leaves mm, which is then settled.
LEMMA CallKeeps ==
    ASSUME PInv, NEW mm, AllStep(mm), m' = Settled(mm, held'), held' \subseteq DOMAIN mm.spans,
           DOMAIN faults' = FaultFields, faults'.clamped = faults.clamped,
           faults'.stale = faults.stale, faults'.copied = faults.copied
    PROVE  PInv' /\ \A ty \in Types : Resource(ty)!TNext \/ UNCHANGED Resource(ty)!tvars
<1>1. /\ DOMAIN m' = MultiFields /\ m'.types = mm.types /\ m'.planners = mm.planners
      /\ DOMAIN m'.spans = DOMAIN mm.spans \cap held'
      /\ IterOK(m'.iter, DOMAIN m.planners)
  BY SettledFields DEF AllStep, AllAdvance
<1>2. AllAdvance(m')
  BY <1>1 DEF AllStep, AllAdvance
<1>3. \A ty \in DOMAIN m.planners : Steps(m.planners[ty], m'.planners[ty])
  BY <1>1 DEF AllStep
<1> QED BY <1>1, <1>2, <1>3, AllStepKeeps

\* Every call keeps the invariant and is a step of the timelines.
LEMMA NextKeeps ==
    ASSUME PInv, PNext
    PROVE  PInv' /\ \A ty \in Types : Resource(ty)!TNext \/ UNCHANGED Resource(ty)!tvars
<1>0. DOMAIN faults = FaultFields /\ held \subseteq DOMAIN m.spans
  BY DEF PInv
<1>1. ASSUME NEW r \in Requests, AddSpan(r)
      PROVE  PInv' /\ \A ty \in Types : Resource(ty)!TNext \/ UNCHANGED Resource(ty)!tvars
  <2> DEFINE a == planner_multi_add_span(m, r.start, r.duration, r.counts)
             v == faults.leak \/ (a.id = -1 /\ a.m.planners # m.planners)
  <2>1. /\ AllStep(a.m) /\ DOMAIN m.spans \subseteq DOMAIN a.m.spans
        /\ a.id # -1 => a.id \in DOMAIN a.m.spans
    BY AddedAll
  <2>2. /\ m' = Settled(a.m, held')
        /\ held' = IF a.id = -1 THEN held ELSE held \cup {a.id}
        /\ faults' = [faults EXCEPT !.leak = v]
    BY <1>1 DEF AddSpan
  <2> HIDE DEF a, v
  <2>3. /\ DOMAIN faults' = FaultFields /\ faults'.clamped = faults.clamped
        /\ faults'.stale = faults.stale /\ faults'.copied = faults.copied
    BY <1>0, <2>2 DEF FaultFields
  <2>4. held' \subseteq DOMAIN a.m.spans
    BY <1>0, <2>1, <2>2
  <2> QED BY <2>1, <2>2, <2>3, <2>4, CallKeeps
<1>2. ASSUME NEW id \in held, RemSpan(id)
      PROVE  PInv' /\ \A ty \in Types : Resource(ty)!TNext \/ UNCHANGED Resource(ty)!tvars
  <2> DEFINE a == planner_multi_rem_span(m, id)
  <2>1. /\ AllStep(a.m) /\ DOMAIN m.spans \ {id} \subseteq DOMAIN a.m.spans
        /\ ~a.ok => DOMAIN m.spans \subseteq DOMAIN a.m.spans
    BY RemovedAll
  <2>2. /\ m' = Settled(a.m, held') /\ held' = IF a.ok THEN held \ {id} ELSE held
        /\ faults' = faults
    BY <1>2 DEF RemSpan
  <2> HIDE DEF a
  <2>3. held' \subseteq DOMAIN a.m.spans
    BY <1>0, <2>1, <2>2
  <2> QED BY <1>0, <2>1, <2>2, <2>3, CallKeeps
<1>3. ASSUME NEW id \in held, NEW ty \in Types, NEW n \in 0 .. 1,
             ReduceSpan(id, [x \in {ty} |-> n])
      PROVE  PInv' /\ \A x \in Types : Resource(x)!TNext \/ UNCHANGED Resource(x)!tvars
  <2> DEFINE counts == [x \in {ty} |-> n]
             a == planner_multi_reduce_span(m, id, counts)
  <2>0. \A x \in DOMAIN counts : counts[x] \in Nat
    OBVIOUS
  <2>1. /\ AllStep(a.m) /\ DOMAIN m.spans \ {id} \subseteq DOMAIN a.m.spans
        /\ ~a.removed => DOMAIN m.spans \subseteq DOMAIN a.m.spans
    <3> HIDE DEF counts
    <3> QED BY <2>0, ReducedAll
  <2>2. /\ m' = Settled(a.m, held') /\ held' = IF a.removed THEN held \ {id} ELSE held
        /\ faults' = faults
    BY <1>3 DEF ReduceSpan
  <2> HIDE DEF a
  <2>3. held' \subseteq DOMAIN a.m.spans
    BY <1>0, <2>1, <2>2
  <2> QED BY <1>0, <2>1, <2>2, <2>3, CallKeeps
<1>4. ASSUME NEW r \in Queries, AvailTimeFirst(r)
      PROVE  PInv' /\ \A ty \in Types : Resource(ty)!TNext \/ UNCHANGED Resource(ty)!tvars
  <2>1. AllStep(Ask(r).m) /\ Ask(r).m.spans = m.spans
    BY AskedFirstAll
  <2>2. m' = Settled(Ask(r).m, held') /\ held' = held /\ faults' = faults
    BY <1>4 DEF AvailTimeFirst
  <2> QED BY <1>0, <2>1, <2>2, CallKeeps
<1>5. ASSUME AvailTimeNext
      PROVE  PInv' /\ \A ty \in Types : Resource(ty)!TNext \/ UNCHANGED Resource(ty)!tvars
  <2> DEFINE a == planner_multi_avail_time_next(m)
  <2>1. AllStep(a.m) /\ a.m.spans = m.spans
    BY AskedNextAll
  <2>2. m' = Settled(a.m, held') /\ held' = held /\ faults' = faults
    BY <1>5 DEF AvailTimeNext
  <2> HIDE DEF a
  <2> QED BY <1>0, <2>1, <2>2, CallKeeps
<1>6. ASSUME NEW types \in {ResType, Reverse(ResType), Tail(ResType)} \ {<< >>},
             NEW totals \in NewTotals, Update(types, totals)
      PROVE  PInv' /\ \A ty \in Types : Resource(ty)!TNext \/ UNCHANGED Resource(ty)!tvars
  <2>1. types \in Seq(Types) /\ types # << >>
    <3>1. ResType \in Seq(Types) /\ ResType # << >>
      BY PlannerAssumption DEF Types
    <3>2. Tail(ResType) \in Seq(Types)
      BY <3>1
    <3>3. Reverse(ResType) \in Seq(Types)
      BY <3>1 DEF Reverse
    <3> QED BY <3>1, <3>2, <3>3
  <2>2. ToSet(types) \subseteq Types
    BY <2>1 DEF ToSet
  <2> QED BY <1>6, <2>1, <2>2, UpdateKeeps
<1>7. ASSUME Clone
      PROVE  PInv' /\ \A ty \in Types : Resource(ty)!TNext \/ UNCHANGED Resource(ty)!tvars
  <2> DEFINE r == planner_multi_copy(m)
  <2>1. /\ AllAdvance(r) /\ r.spans = m.spans
        /\ \A ty \in DOMAIN m.planners : m.planners[ty].tracked = {} =>
              Current(r.planners[ty]) /\ Sought(r.planners[ty])
    BY CopiedAll
  <2>2. m' = r /\ held' = held
    BY <1>7 DEF Clone
  <2> DEFINE k == faults.copied \cup {ty \in DOMAIN m.planners : m.planners[ty].tracked # {}}
  <2>3. faults' = [faults EXCEPT !.stale = {}, !.copied = k]
    BY <1>7 DEF Clone
  <2> HIDE DEF r, k
  <2>4. DOMAIN faults' = FaultFields /\ faults'.clamped = faults.clamped /\ faults'.copied = k
    BY <1>0, <2>3 DEF FaultFields
  <2>5. \A ty \in DOMAIN m.planners \ faults'.copied : m.planners[ty].tracked = {}
    BY <2>4 DEF k
  <2> QED BY <1>0, <2>1, <2>2, <2>4, <2>5, AllStepKeeps
<1> QED BY <1>1, <1>2, <1>3, <1>4, <1>5, <1>6, <1>7, ResetKeeps DEF PNext

\* Nothing changes while the client does not call.
LEMMA StutterKeeps ==
    ASSUME PInv, UNCHANGED pvars
    PROVE  PInv'
  BY DEF PInv, PlannerOK, pvars

\* The invariant of the planners.
LEMMA PInvariance == PSpec => []PInv
<1>1. PInv /\ [PNext]_pvars => PInv'
  BY NextKeeps, StutterKeeps
<1> QED BY <1>1, Begins, PTL DEF PSpec

\* The planner's state keeps its types: every point lies in the plan, the min-time
\* tree and the iteration hold points of the planner, and the spans the client
\* holds are known to the multi-planner.
THEOREM PlannerTypes == PSpec => []PTypeOK
<1>1. PInv => PTypeOK
  <2> SUFFICES ASSUME PInv PROVE PTypeOK
    OBVIOUS
  <2>1. ASSUME NEW ty \in DOMAIN m.planners
        PROVE  LET p == m.planners[ty]
               IN  /\ p.points \in [Times(p) -> ScheduledPoint]
                   /\ \A i \in DOMAIN p.spans : p.spans[i] \in Span
                   /\ p.request \in Request
                   /\ p.tracked \subseteq Times(p) /\ DOMAIN p.mintime \subseteq Times(p)
                   /\ \A t \in Times(p) : p.start <= t /\ t <= p.end
    <3> DEFINE p == m.planners[ty]
    <3>1. Sound(p)
      BY DEF PInv, PlannerOK
    <3> HIDE DEF p
    <3>2. /\ p.points \in [Times(p) -> ScheduledPoint]
          /\ p.start \in Nat /\ p.end \in Nat /\ Times(p) \subseteq p.start .. p.end
      BY <3>1, SoundTypes
    <3>3. /\ \A i \in DOMAIN p.spans : p.spans[i] \in Span
          /\ p.request \in Request
          /\ p.tracked \subseteq Times(p) /\ DOMAIN p.mintime \subseteq Times(p)
      BY <3>1 DEF Sound, Bookings
    <3> QED BY <3>2, <3>3 DEF p
  <2> QED BY <2>1 DEF PTypeOK, PInv
<1> QED BY <1>1, PInvariance, PTL

\* For every plan, every amount and every sequence of calls: at every instant the
\* state in force says what the spans take and what they leave, as long as no
\* update has left less than is planned.
THEOREM PlannerAccounting == PSpec => []Accounting
<1>1. PInv => Accounting
  <2> SUFFICES ASSUME PInv, NEW ty \in DOMAIN m.planners \ faults.clamped, NEW t \in 0 .. PlanEnd
               PROVE  LET p == m.planners[ty]
                          used == Resource(ty)!Used(p.spans, t)
                      IN  p.points[get_state(p, t)].scheduled = used
                          /\ p.points[get_state(p, t)].remaining = p.total - used
    BY DEF Accounting
  <2> DEFINE p == m.planners[ty]
  <2>1. Sound(p) /\ p.start = 0 /\ p.end = PlanEnd /\ Exact(p)
    BY DEF PInv, PlannerOK
  <2> HIDE DEF p
  <2>2. /\ p.points[get_state(p, t)].scheduled = Use(p.spans, t)
        /\ p.points[get_state(p, t)].remaining = p.total - Use(p.spans, t)
    BY <2>1, SoundAccounts
  <2> QED BY <2>2, UsedIsUse DEF p
<1> QED BY <1>1, PInvariance, PTL

\* For every plan, every amount and every sequence of calls, the planner of each
\* resource implements the timeline of the resource: a span is added only where the
\* spans before it leave enough at every instant.
THEOREM PlannerRefinement == PSpec => ImplementsTimeline
<1> DEFINE Moves == \A ty \in Types : Resource(ty)!TNext \/ UNCHANGED Resource(ty)!tvars
           Start == \A ty \in Types : Resource(ty)!TInit
<1>1. PInit => Start
  BY Begins
<1>2. PInv /\ [PNext]_pvars => [Moves]_pvars
  BY NextKeeps
<1>3. ImplementsTimeline <=> Start /\ [][Moves]_pvars
  BY DEF ImplementsTimeline
<1> HIDE DEF Moves, Start
<1> QED BY <1>1, <1>2, <1>3, PInvariance, PTL DEF PSpec

(***************************************************************************)
(* What the queries answer.                                                *)
(***************************************************************************)
\* A first proposal of no time is the answer.
LEMMA LoopRefused ==
    ASSUME NEW mm, NEW duration, NEW counts, NEW first, first.t = NoTime, Sound(first.p)
    PROVE  Iterate(mm, first, duration, counts).t = NoTime
<1> DEFINE f == CHOOSE g : IsLoop(mm, duration, counts, first, g)
           num == Cardinality(Times(first.p)) + 1
           B == {k \in Nat : f[k] # first}
<1>1. IsLoop(mm, duration, counts, first, f)
  BY LoopExists
<1>2. Iterate(mm, first, duration, counts).t = f[num].t
  BY DEF Iterate, IsLoop, Proposal
<1> HIDE DEF f
<1>3. \A k \in Nat : f[k] = IF k = 0 THEN first ELSE Proposal(mm, duration, counts, f[k - 1])
  BY <1>1 DEF IsLoop
<1>4. B = {}
  <2> SUFFICES ASSUME B # {} PROVE FALSE
    OBVIOUS
  <2>1. PICK k \in B : \A j \in B : k <= j
    <3>1. B \subseteq Nat
      OBVIOUS
    <3> HIDE DEF B
    <3> QED BY <3>1, LeastNumber
  <2>2. k # 0
    BY <1>3
  <2>3. k - 1 \in Nat /\ k \in Nat
    BY <2>2
  <2>4. f[k - 1] = first
    BY <2>1, <2>3
  <2>5. f[k] = Proposal(mm, duration, counts, first)
    BY <1>3, <2>2, <2>3, <2>4
  <2> QED BY <2>5 DEF Proposal
<1>5. num \in Nat
  BY TrackedFinite
<1> QED BY <1>2, <1>4, <1>5

\* Without updates of the totals, every planner is exact, and the one that proposes
\* the times is accurate, unless it is a copy made in the middle of an iteration.
LEMMA AccurateAll ==
    ASSUME PInv, TreeKnown, NEW ty \in DOMAIN m.planners
    PROVE  /\ Sound(m.planners[ty]) /\ Exact(m.planners[ty])
           /\ m.planners[ty].start = 0 /\ m.planners[ty].end = PlanEnd
           /\ ty = m.types[1] => Accurate(m.planners[ty]) /\ Sought(m.planners[ty])
  BY DEF PInv, PlannerOK, Accurate, TreeKnown

\* The times all planners agree to are those at which the request fits by the spans.
LEMMA AgreedIsFit ==
    ASSUME PInv, TreeKnown, NEW q \in Request, q.duration >= 1, NEW counts,
           \A ty \in DOMAIN m.planners : counts[ty] \in Nat, counts[m.types[1]] = q.count,
           NEW mm, mm.types = m.types, mm.planners = m.planners,
           NEW x, Same(get_planner_at(m, 1), x),
           NEW r, r.on_or_after = q.on_or_after, r.duration = q.duration
    PROVE  Agreed(mm, q.duration, counts, x, q) = FitTimes(r, counts) \ x.tracked
<1> DEFINE p == get_planner_at(m, 1)
           d == q.duration
           P(ty) == m.planners[ty]
           Fine(ty, t) == Room(P(ty), t, d, counts[ty])
<1>1. /\ 1 \in DOMAIN m.types /\ m.types[1] \in DOMAIN m.planners /\ p = P(m.types[1])
      /\ ToSet(m.types) = DOMAIN m.planners /\ m.types \in Seq(Types)
  BY FirstType DEF PInv
<1>2. \A ty \in DOMAIN m.planners :
         Sound(P(ty)) /\ Exact(P(ty)) /\ P(ty).start = 0 /\ P(ty).end = PlanEnd
  BY AccurateAll DEF Accurate
<1>3. Times(p) \subseteq Nat /\ PlanEnd \in Nat /\ d \in Nat
  BY <1>1, <1>2, SoundTypes, PlannerAssumption DEF Request
<1>4. Fitting(x, q) = {t \in Times(p) : /\ q.on_or_after <= t /\ t + d <= PlanEnd
                                        /\ Room(p, t, d, q.count)}
  <2>1. Fitting(x, q) = Fitting(p, q)
    BY FittingSame
  <2> HIDE DEF p
  <2>2. Sound(p) /\ Exact(p) /\ p.end = PlanEnd
    BY <1>1, <1>2
  <2> QED BY <2>1, <2>2, FittingBySpans
<1>5. ASSUME NEW t \in Times(p), t + d <= PlanEnd
      PROVE  OthersAvail(mm, t, d, counts) <=> \A i \in 2 .. Len(m.types) : Fine(m.types[i], t)
  <2>1. ASSUME NEW i \in 2 .. Len(m.types)
        PROVE  planner_avail_during(P(m.types[i]), t, d, counts[m.types[i]]) <=> Fine(m.types[i], t)
    <3>1. m.types[i] \in DOMAIN m.planners
      BY <1>1 DEF ToSet
    <3> DEFINE y == P(m.types[i])
               c == counts[m.types[i]]
    <3>2. Sound(y) /\ Exact(y) /\ y.start = 0 /\ y.end = PlanEnd /\ c \in Nat /\ t \in Nat
      BY <1>2, <1>3, <3>1
    <3> HIDE DEF y, c
    <3>3. planner_avail_during(y, t, d, c) <=> t + d <= PlanEnd /\ Room(y, t, d, c)
      BY <1>3, <3>2, DuringBySpans
    <3> QED BY <1>5, <3>3 DEF y, c
  <2> HIDE DEF Fine
  <2> QED BY <2>1 DEF OthersAvail, get_planner_at
<1>6. ASSUME NEW t
      PROVE  (\A ty \in DOMAIN m.planners : Fine(ty, t))
               <=> Fine(m.types[1], t) /\ \A i \in 2 .. Len(m.types) : Fine(m.types[i], t)
  <2>1. DOMAIN m.types = 1 .. Len(m.types) /\ Len(m.types) \in Nat
    BY <1>1
  <2>2. \A ty \in DOMAIN m.planners : \E i \in DOMAIN m.types : ty = m.types[i]
    BY <1>1 DEF ToSet
  <2>3. \A i \in DOMAIN m.types : m.types[i] \in DOMAIN m.planners
    BY <1>1 DEF ToSet
  <2>4. \A i \in DOMAIN m.types : i = 1 \/ i \in 2 .. Len(m.types)
    BY <2>1
  <2>5. \A i \in 2 .. Len(m.types) : i \in DOMAIN m.types
    BY <2>1
  <2> HIDE DEF Fine
  <2> QED BY <1>1, <2>2, <2>3, <2>4, <2>5
<1>7. FitTimes(r, counts) = {t \in Times(p) : /\ q.on_or_after <= t /\ t + d <= PlanEnd
                                              /\ \A ty \in DOMAIN m.planners : Fine(ty, t)}
  BY UsedIsUse DEF FitTimes, Room
<1>8. \A t : Room(p, t, d, q.count) <=> Fine(m.types[1], t)
  BY <1>1
<1> HIDE DEF Fine, p
<1> QED BY <1>4, <1>5, <1>6, <1>7, <1>8 DEF Agreed

\* A query answers with the earliest point of change at which the request fits.
LEMMA AskAnswers ==
    ASSUME PInv, TreeKnown, NEW r \in Queries, r.on_or_after < PlanEnd, r.duration >= 1
    PROVE  Ask(r).t = Earliest(FitTimes(r, r.counts))
<1> DEFINE p == get_planner_at(m, 1)
           c == r.counts[m.types[1]]
           q == [on_or_after |-> r.on_or_after, duration |-> r.duration, count |-> c]
           first == planner_avail_time_first(p, r.on_or_after, r.duration, c)
           mm == [m EXCEPT !.iter = [duration |-> r.duration, counts |-> r.counts]]
<1>1. /\ r.on_or_after \in Nat /\ r.duration \in Nat /\ c \in Nat
      /\ \A ty \in DOMAIN m.planners : r.counts[ty] \in Nat
  BY QueryTyped DEF QueryTypes
<1>2. /\ m.types[1] \in DOMAIN m.planners /\ p = m.planners[m.types[1]]
      /\ Accurate(p) /\ Sound(p) /\ p.start = 0 /\ p.end = PlanEnd
  BY FirstType, AccurateAll DEF Accurate
<1>3. Ask(r).t = Iterate(mm, first, r.duration, r.counts).t
  BY DEF Ask, planner_multi_avail_time_first
<1>4. mm.types = m.types /\ mm.planners = m.planners
  BY DEF PInv, MultiFields
<1>5. /\ q \in Request /\ q.duration = r.duration /\ q.on_or_after = r.on_or_after /\ q.count = c
      /\ p.total \in Nat /\ PlanEnd \in Nat /\ Times(p) \subseteq Nat
  BY <1>1, <1>2, SoundTypes, PlannerAssumption DEF Request
<1> HIDE DEF mm
<1>6. CASE c > p.total
  <2>1. first = [p |-> p, t |-> NoTime]
    BY <1>6 DEF planner_avail_time_first
  <2>2. Ask(r).t = NoTime
    <3>1. first.t = NoTime /\ first.p = p
      BY <2>1
    <3> HIDE DEF first, p
    <3> QED BY <1>2, <1>3, <3>1, LoopRefused
  <2>3. ASSUME NEW t \in FitTimes(r, r.counts) PROVE FALSE
    <3>1. t \in Nat /\ t \in t .. (t + r.duration - 1)
      BY <1>1, <1>5 DEF FitTimes
    <3>2. c + Use(p.spans, t) <= p.total
      BY <1>2, <2>3, <3>1, UsedIsUse DEF FitTimes
    <3>3. Use(p.spans, t) \in Nat
      <4> HIDE DEF p
      <4> QED BY <1>2, BookingTypes DEF Sound
    <3> HIDE DEF p, c
    <3> QED BY <1>1, <1>5, <1>6, <3>2, <3>3
  <2>4. FitTimes(r, r.counts) = {}
    BY <2>3
  <2> QED BY <2>2, <2>4 DEF Earliest
<1>7. CASE ~(c > p.total)
  <2> DEFINE x == Begun(p, q)
  <2>1. first = avail_at(x, q)
    <3>1. ~(r.on_or_after < p.start \/ r.on_or_after >= p.end \/ r.duration < 1 \/ c > p.total)
      <4> HIDE DEF p, c
      <4> QED BY <1>1, <1>2, <1>5, <1>7
    <3> QED BY <3>1 DEF planner_avail_time_first, Begun
  <2>2. Sound(x) /\ Same(p, x) /\ x.tracked = {} /\ x.request = q /\ x.iter_set = TRUE
    <3> HIDE DEF p, q
    <3> QED BY <1>2, <1>5, BegunFields
  <2> HIDE DEF p, q, x, c, first
  <2>3. Accurate(x)
    BY <1>2, <2>2, SameAccurate
  <2>4. Tracks(x, q)
    <3>1. x.total = p.total
      BY <2>2 DEF Same
    <3> QED BY <1>1, <1>5, <1>7, <2>2, <3>1 DEF Tracks
  <2>5. Iterate(mm, first, r.duration, r.counts).t = Earliest(Agreed(mm, r.duration, r.counts, x, q))
    BY <1>5, <2>1, <2>2, <2>3, <2>4, LoopFinds
  <2>6. Agreed(mm, q.duration, r.counts, x, q) = FitTimes(r, r.counts) \ x.tracked
    <3>1. q.duration >= 1
      BY <1>5
    <3>2. r.counts[m.types[1]] = q.count /\ Same(get_planner_at(m, 1), x)
      BY <1>5, <2>2 DEF p, c
    <3> QED BY <1>1, <1>4, <1>5, <3>1, <3>2, AgreedIsFit
  <2>7. FitTimes(r, r.counts) \ x.tracked = FitTimes(r, r.counts)
    BY <2>2
  <2> QED BY <1>3, <1>5, <2>5, <2>6, <2>7
<1> QED BY <1>6, <1>7

\* For every plan, every amount and every sequence of calls: a query answers with
\* the earliest point of change at which all the types have enough, whatever
\* earlier queries have taken out of the min-time tree, as long as no update has
\* changed a total and the planner that proposes the times was not copied while
\* points were out of its tree (its copy inserts them into its tree a second time).
THEOREM EarliestAnswer == PSpec => []EarliestFirst
<1>1. PInv => EarliestFirst
  BY AskAnswers DEF EarliestFirst
<1> QED BY <1>1, PInvariance, PTL

\* Asking on answers with the earliest fit the iteration has not looked at.
LEMMA NextAnswers ==
    ASSUME PInv, TreeKnown, get_planner_at(m, 1).tracked # {},
           m.iter.duration = get_planner_at(m, 1).request.duration,
           m.iter.counts[m.types[1]] = get_planner_at(m, 1).request.count
    PROVE  LET p == get_planner_at(m, 1)
           IN  planner_multi_avail_time_next(m).t =
                   IF ~p.iter_set THEN NoTime
                   ELSE Earliest({t \in FitTimes(p.request, m.iter.counts) : t > Max(p.tracked)})
<1> DEFINE p == get_planner_at(m, 1)
           q == p.request
           first == planner_avail_time_next(p)
           counts == m.iter.counts
           F == FitTimes(q, counts)
<1>1. /\ m.types[1] \in DOMAIN m.planners /\ p = m.planners[m.types[1]]
      /\ Accurate(p) /\ Sound(p) /\ Sought(p) /\ p.start = 0 /\ p.end = PlanEnd
  BY FirstType, AccurateAll DEF Accurate
<1>2. planner_multi_avail_time_next(m).t = Iterate(m, first, q.duration, counts).t
  BY DEF planner_multi_avail_time_next
<1>3. q \in Request /\ Tracks(p, q)
  <2>1. q \in Request
    <3> HIDE DEF p
    <3> QED BY <1>1 DEF Sound
  <2> QED BY <1>1, <2>1 DEF Sought
<1>4. \A ty \in DOMAIN m.planners : counts[ty] \in Nat
  BY DEF PInv, IterOK
<1>5. p.tracked # {} /\ counts[m.types[1]] = q.count
  OBVIOUS
<1>6. /\ Times(p) \subseteq Nat /\ p.tracked \subseteq Times(p) /\ p.end \in Nat /\ p.total \in Nat
      /\ \A t \in Times(p) : t <= p.end
  <2> HIDE DEF p
  <2>1. Times(p) \subseteq Nat /\ p.end \in Nat /\ p.total \in Nat /\ \A t \in Times(p) : t <= p.end
    BY <1>1, SoundTypes
  <2>2. p.tracked \subseteq Times(p)
    BY <1>1 DEF Sound
  <2> QED BY <2>1, <2>2
<1>7. Agreed(m, q.duration, counts, p, q) = F \ p.tracked
  <2>1. Same(p, p)
    BY DEF Same
  <2>2. q.duration >= 1
    BY <1>3 DEF Tracks
  <2> QED BY <1>3, <1>4, <1>5, <2>1, <2>2, AgreedIsFit
<1>8. F \ p.tracked = {t \in F : t > Max(p.tracked)}
  <2> DEFINE z == Max(p.tracked)
  <2>1. z \in p.tracked /\ \A u \in p.tracked : u <= z
    <3>1. p.tracked \subseteq Nat /\ \A u \in p.tracked : u <= p.end
      BY <1>6
    <3> HIDE DEF p
    <3> QED BY <1>5, <1>6, <3>1, MaxIs
  <2>2. ASSUME NEW t \in F PROVE t \in Enough(p, q.count) /\ t \in Nat
    <3>1. t \in Times(p) /\ t \in Nat
      BY <1>6, <2>2 DEF FitTimes
    <3>2. CASE t \in p.tracked
      BY <1>3, <3>1, <3>2 DEF Tracks
    <3>3. CASE t \notin p.tracked
      <4>1. t \in Agreed(m, q.duration, counts, p, q)
        BY <1>7, <2>2, <3>3
      <4> QED BY <3>1, <4>1 DEF Agreed, Fitting
    <3> QED BY <3>2, <3>3
  <2>3. \A t \in Enough(p, q.count) : t <= z => t \in p.tracked
    BY <1>3, <2>1 DEF Tracks
  <2>4. z \in Nat
    BY <1>6, <2>1
  <2> HIDE DEF z, F, p
  <2>5. ASSUME NEW t \in F PROVE t \notin p.tracked <=> t > z
    BY <1>6, <2>1, <2>2, <2>3, <2>4
  <2> QED BY <2>5 DEF z
<1> HIDE DEF F, counts
<1>9. CASE ~p.iter_set
  <2>1. first = [p |-> p, t |-> NoTime]
    BY <1>9 DEF planner_avail_time_next
  <2>2. first.t = NoTime /\ first.p = p
    BY <2>1
  <2> HIDE DEF first
  <2>3. Iterate(m, first, q.duration, counts).t = NoTime
    BY <1>1, <2>2, LoopRefused
  <2> QED BY <1>2, <1>9, <2>3
<1>10. CASE p.iter_set
  <2>2. first = avail_at(p, q)
    <3>1. ~(q.count > p.total)
      <4>1. q.count \in Nat /\ q.count <= p.total
        BY <1>3 DEF Request, Tracks
      <4> HIDE DEF p
      <4> QED BY <1>6, <4>1
    <3> QED BY <1>10, <3>1 DEF planner_avail_time_next
  <2> HIDE DEF first, p
  <2>3. Iterate(m, first, q.duration, counts).t = Earliest(Agreed(m, q.duration, counts, p, q))
    BY <1>1, <1>3, <1>10, <2>2, LoopFinds
  <2> QED BY <1>2, <1>7, <1>8, <1>10, <2>3 DEF F, counts, p
<1> QED BY <1>9, <1>10 DEF F, counts

\* For every plan, every amount and every sequence of calls: asking on answers with
\* the earliest fit among the points the iteration has not looked at, and a planner
\* that has changed since the query is not iterated on; with the exceptions of
\* EarliestAnswer (a copy made in the middle of an iteration begins it again).
THEOREM NextAnswer == PSpec => []NextGoesOn
<1>1. PInv => NextGoesOn
  BY NextAnswers DEF NextGoesOn
<1> QED BY <1>1, PInvariance, PTL

(***************************************************************************)
(* Who owns the parts that the planners hold.                              *)
(***************************************************************************)
\* The parts of the planners of mm are those of the spans ids, each of one span.
Owned(mm, ids) ==
    /\ \A h \in ids : DOMAIN mm.spans[h] = DOMAIN mm.types
    /\ \A h \in ids, i \in DOMAIN mm.types :
          mm.spans[h][i] # -1 => mm.spans[h][i] \in DOMAIN get_planner_at(mm, i).spans
    /\ \A i \in DOMAIN mm.types : \A id \in DOMAIN get_planner_at(mm, i).spans :
          \E h \in ids : mm.spans[h][i] = id
    /\ \A g \in ids, h \in ids, i \in DOMAIN mm.types :
          mm.spans[g][i] = mm.spans[h][i] /\ mm.spans[g][i] # -1 => g = h

\* The invariant of the parts: spans are numbered in the order they were added.
OInv ==
    /\ PInv /\ IsInjective(m.types) /\ m.counter \in Nat
    /\ \A h \in held : h \in Nat /\ h < m.counter
    /\ ~faults.leak /\ ~faults.moved => Owned(m, held)

\* The index of a type is the only one.
LEMMA IndexOf ==
    ASSUME NEW s, IsInjective(s), NEW D, D \subseteq DOMAIN s, NEW i \in DOMAIN s
    PROVE  /\ (\E k \in D : s[k] = s[i]) <=> i \in D
           /\ i \in D => (CHOOSE k \in D : s[k] = s[i]) = i
  BY DEF IsInjective

\* No part has number -1, which stands for a part that is gone.
LEMMA NoPart ==
    ASSUME NEW p, Sound(p)
    PROVE  /\ -1 \notin DOMAIN p.spans /\ p.counter \in Nat
           /\ p.counter + 1 \notin DOMAIN p.spans
  BY DEF Sound, Bookings

\* The parts of a planner after a span is added,
LEMMA AddedPart ==
    ASSUME NEW p, Sound(p), NEW from \in Nat, NEW duration \in Nat, NEW count \in Nat,
           planner_add_span(p, from, duration, count).id # -1
    PROVE  LET a == planner_add_span(p, from, duration, count)
           IN  /\ a.id \notin DOMAIN p.spans
               /\ DOMAIN a.p.spans = DOMAIN p.spans \cup {a.id}
<1> DEFINE a == planner_add_span(p, from, duration, count)
<1>1. avail_during(p, from, duration, count) /\ span_input_check(p, from, duration, count)
  BY DEF planner_add_span
<1>2. Added(p, from, duration, count, a)
  BY <1>1, SpanAdded
<1> HIDE DEF a
<1> QED BY <1>2, NoPart DEF Added, WithSpan, a

\* removed,
LEMMA RemovedPart ==
    ASSUME NEW p, Sound(p), NEW id \in DOMAIN p.spans
    PROVE  LET a == planner_rem_span(p, id)
           IN  a.ok = TRUE /\ DOMAIN a.p.spans = DOMAIN p.spans \ {id}
<1> DEFINE a == planner_rem_span(p, id)
<1>1. a.ok = TRUE
  BY DEF planner_rem_span
<1>2. a.p.spans = Restrict(p.spans, DOMAIN p.spans \ {id})
  BY SpanRemoved
<1> HIDE DEF a
<1> QED BY <1>1, <1>2 DEF Restrict, a

\* reduced.
LEMMA ReducedPart ==
    ASSUME NEW p, Sound(p), NEW id, NEW d \in Nat
    PROVE  LET a == planner_reduce_span(p, id, d)
           IN  /\ a.removed => id \in DOMAIN p.spans
               /\ DOMAIN a.p.spans = IF a.removed THEN DOMAIN p.spans \ {id} ELSE DOMAIN p.spans
<1> DEFINE a == planner_reduce_span(p, id, d)
<1>1. CASE id \notin DOMAIN p.spans \/ d > p.spans[id].planned
  <2>1. a.p = p /\ a.removed = FALSE
    BY <1>1 DEF planner_reduce_span
  <2> HIDE DEF a
  <2> QED BY <2>1 DEF a
<1>2. CASE id \in DOMAIN p.spans /\ ~(d > p.spans[id].planned) /\ d = p.spans[id].planned
  <2>1. a = [p |-> planner_rem_span(p, id).p, ok |-> TRUE, removed |-> TRUE]
    BY <1>2 DEF planner_reduce_span
  <2>2. a.p = planner_rem_span(p, id).p /\ a.removed = TRUE
    BY <2>1
  <2>3. DOMAIN a.p.spans = DOMAIN p.spans \ {id}
    <3> HIDE DEF a
    <3> QED BY <1>2, <2>2, RemovedPart
  <2> HIDE DEF a
  <2> QED BY <1>2, <2>2, <2>3 DEF a
<1>3. CASE id \in DOMAIN p.spans /\ ~(d > p.spans[id].planned) /\ d # p.spans[id].planned /\ d = 0
  <2>1. a.p = p /\ a.removed = FALSE
    BY <1>3 DEF planner_reduce_span
  <2> HIDE DEF a
  <2> QED BY <2>1 DEF a
<1>4. CASE id \in DOMAIN p.spans /\ ~(d > p.spans[id].planned) /\ d # p.spans[id].planned /\ d # 0
  <2>1. p.spans[id].planned \in Nat
    BY <1>4, BookingTypes DEF Sound
  <2>2. d < p.spans[id].planned
    BY <1>4, <2>1
  <2>3. a.p.spans = [p.spans EXCEPT ![id].planned = @ - d]
    BY <1>4, <2>2, SpanReduced
  <2>4. a.removed = FALSE
    BY <1>4 DEF planner_reduce_span
  <2> HIDE DEF a
  <2>5. DOMAIN a.p.spans = DOMAIN p.spans
    BY <2>3
  <2> QED BY <2>4, <2>5 DEF a
<1> QED BY <1>1, <1>2, <1>3, <1>4

\* What is settled keeps its parts and its number of spans.
LEMMA SettledSpans ==
    ASSUME NEW mm, DOMAIN mm = MultiFields, NEW ids, ids \subseteq DOMAIN mm.spans
    PROVE  LET r == Settled(mm, ids)
           IN  r.counter = mm.counter /\ (Owned(mm, ids) => Owned(r, ids))
<1> DEFINE r == Settled(mm, ids)
           I == IF get_planner_at(mm, 1).iter_set THEN mm.iter
                ELSE [duration |-> 0, counts |-> [ty \in DOMAIN mm.planners |-> 0]]
           S == Restrict(mm.spans, DOMAIN mm.spans \cap ids)
<1>1. r = [mm EXCEPT !.iter = I, !.spans = S]
  BY DEF Settled
<1>2. \A h \in ids : S[h] = mm.spans[h]
  BY DEF Restrict
<1> HIDE DEF I, S
<1>3. /\ r.types = mm.types /\ r.planners = mm.planners /\ r.spans = S /\ r.counter = mm.counter
  BY <1>1 DEF MultiFields
<1> HIDE DEF r
<1>4. Owned(mm, ids) => Owned(r, ids)
  BY <1>2, <1>3 DEF Owned, get_planner_at
<1> QED BY <1>3, <1>4 DEF r

\* A span that is added owns a new part of every planner; one that is refused leaves
\* parts behind only if a planner has changed.
LEMMA AddOwned ==
    ASSUME OInv, NEW r \in Requests
    PROVE  LET a == planner_multi_add_span(m, r.start, r.duration, r.counts)
           IN  /\ a.m.counter = m.counter + 1 /\ a.m.types = m.types
               /\ a.id # -1 => a.id = m.counter
               /\ a.id # -1 /\ Owned(m, held) => Owned(a.m, held \cup {a.id})
               /\ a.id = -1 /\ a.m.planners = m.planners /\ Owned(m, held) => Owned(a.m, held)
<1> DEFINE add(i) == planner_add_span(get_planner_at(m, i), r.start, r.duration,
                                      r.counts[m.types[i]])
           refuse == {i \in DOMAIN m.types : add(i).id = -1}
           done   == IF refuse = {} THEN DOMAIN m.types ELSE 1..(Min(refuse) - 1)
           Q == [ty \in DOMAIN m.planners |->
                  IF \E i \in done : m.types[i] = ty
                    THEN add(CHOOSE i \in done : m.types[i] = ty).p ELSE m.planners[ty]]
           planned == [m EXCEPT !.counter = @ + 1, !.planners = Q]
           S == [j \in DOMAIN m.spans \cup {m.counter} |->
                   IF j = m.counter THEN [i \in DOMAIN m.types |-> add(i).id] ELSE m.spans[j]]
           a == planner_multi_add_span(m, r.start, r.duration, r.counts)
<1>1. /\ r.start \in Nat /\ r.duration \in Nat
      /\ \A ty \in DOMAIN m.planners : r.counts[ty] \in Nat
  <2>1. r \in [start: Nat, duration: Nat, counts: [Types -> Nat]]
    BY PlannerAssumption DEF Types
  <2> QED BY <2>1 DEF OInv, PInv
<1>2. a = IF refuse # {} THEN [m |-> planned, id |-> -1]
          ELSE [m |-> [planned EXCEPT !.spans = S], id |-> m.counter]
  <2>1. planned.spans = m.spans
    <3> HIDE DEF Q
    <3> QED BY DEF OInv, PInv, MultiFields
  <2> QED BY <2>1 DEF planner_multi_add_span
<1>3. ASSUME NEW i \in DOMAIN m.types, refuse = {}
      PROVE  /\ DOMAIN Q[m.types[i]].spans = DOMAIN get_planner_at(m, i).spans \cup {add(i).id}
             /\ add(i).id \notin DOMAIN get_planner_at(m, i).spans /\ add(i).id # -1
  <2>1. /\ m.types[i] \in DOMAIN m.planners /\ Sound(get_planner_at(m, i))
    BY DEF OInv, PInv, PlannerOK, ToSet, get_planner_at
  <2>2. add(i).id # -1
    BY <1>3
  <2>3. Q[m.types[i]] = add(i).p
    <3>1. done = DOMAIN m.types
      BY <1>3
    <3>2. (\E k \in done : m.types[k] = m.types[i]) /\ (CHOOSE k \in done : m.types[k] = m.types[i]) = i
      <4> HIDE DEF done
      <4> QED BY <3>1, IndexOf DEF OInv
    <3> HIDE DEF done, add
    <3> QED BY <2>1, <3>2
  <2> HIDE DEF Q
  <2> QED BY <1>1, <2>1, <2>2, <2>3, AddedPart
<1>4. \A h \in held : h \in DOMAIN m.spans /\ h # m.counter
  BY DEF OInv, PInv
<1>5. /\ \A h \in held : S[h] = m.spans[h]
      /\ DOMAIN S[m.counter] = DOMAIN m.types
      /\ \A i \in DOMAIN m.types : S[m.counter][i] = add(i).id
  <2> HIDE DEF add
  <2> QED BY <1>4
<1> HIDE DEF Q, S, refuse
<1>6. /\ a.m.types = m.types /\ a.m.planners = Q /\ a.m.counter = m.counter + 1
      /\ a.m.spans = IF refuse # {} THEN m.spans ELSE S
      /\ a.id = IF refuse # {} THEN -1 ELSE m.counter
  BY <1>2 DEF OInv, PInv, MultiFields
<1> HIDE DEF a, add
<1>7. m.counter # -1
  BY DEF OInv
<1>8. ASSUME refuse = {}, Owned(m, held) PROVE Owned(a.m, held \cup {a.id})
  <2> DEFINE D(i) == DOMAIN get_planner_at(m, i).spans
  <2>1. a.m.types = m.types /\ a.m.spans = S /\ a.id = m.counter
    BY <1>6, <1>8
  <2>2. \A i \in DOMAIN m.types : /\ DOMAIN get_planner_at(a.m, i).spans = D(i) \cup {add(i).id}
                                  /\ add(i).id \notin D(i) /\ add(i).id # -1
    BY <1>3, <1>6, <1>8 DEF get_planner_at
  <2>3. /\ \A h \in held : DOMAIN m.spans[h] = DOMAIN m.types
        /\ \A h \in held, i \in DOMAIN m.types : m.spans[h][i] # -1 => m.spans[h][i] \in D(i)
        /\ \A i \in DOMAIN m.types : \A id \in D(i) : \E h \in held : m.spans[h][i] = id
        /\ \A g \in held, h \in held, i \in DOMAIN m.types :
              m.spans[g][i] = m.spans[h][i] /\ m.spans[g][i] # -1 => g = h
    BY <1>8 DEF Owned
  <2> HIDE DEF D
  <2>4. \A h \in held \cup {m.counter} : DOMAIN S[h] = DOMAIN m.types
    BY <1>5, <2>3
  <2>5. \A h \in held \cup {m.counter}, i \in DOMAIN m.types :
           S[h][i] # -1 => S[h][i] \in D(i) \cup {add(i).id}
    BY <1>5, <2>3
  <2>6. \A i \in DOMAIN m.types : \A id \in D(i) \cup {add(i).id} :
           \E h \in held \cup {m.counter} : S[h][i] = id
    BY <1>5, <2>3
  <2>7. ASSUME NEW g \in held \cup {m.counter}, NEW h \in held \cup {m.counter}, NEW i \in DOMAIN m.types,
               S[g][i] = S[h][i], S[g][i] # -1
        PROVE  g = h
    <3>1. \A k \in held : S[k][i] # -1 => S[k][i] # add(i).id
      BY <1>5, <2>2, <2>3
    <3> QED BY <1>5, <2>3, <2>7, <3>1
  <2> QED BY <2>1, <2>2, <2>4, <2>5, <2>6, <2>7 DEF Owned
<1>9. ASSUME refuse # {}, a.m.planners = m.planners, Owned(m, held) PROVE Owned(a.m, held)
  BY <1>6, <1>9 DEF Owned, get_planner_at
<1> QED BY <1>6, <1>7, <1>8, <1>9 DEF a

\* A span that is removed owned what the planners gave up.
LEMMA RemoveOwned ==
    ASSUME OInv, NEW id \in held, Owned(m, held)
    PROVE  LET a == planner_multi_rem_span(m, id)
           IN  a.ok = TRUE /\ Owned(a.m, held \ {id})
<1> DEFINE parts == m.spans[id]
           rem(i) == planner_rem_span(get_planner_at(m, i), parts[i])
           fail  == {i \in DOMAIN parts : parts[i] # -1 /\ ~rem(i).ok}
           done  == {i \in DOMAIN parts : parts[i] # -1 /\ \A k \in fail : i < k}
           Q == [ty \in DOMAIN m.planners |->
                   IF \E i \in done : m.types[i] = ty
                     THEN rem(CHOOSE i \in done : m.types[i] = ty).p ELSE m.planners[ty]]
           m1 == [m EXCEPT !.planners = Q]
           S == Restrict(m.spans, DOMAIN m.spans \ {id})
           a == planner_multi_rem_span(m, id)
           D(i) == DOMAIN get_planner_at(m, i).spans
<1>1. id \in DOMAIN m.spans /\ held \subseteq DOMAIN m.spans
  BY DEF OInv, PInv
<1>2. /\ \A h \in held : DOMAIN m.spans[h] = DOMAIN m.types
      /\ \A h \in held, i \in DOMAIN m.types : m.spans[h][i] # -1 => m.spans[h][i] \in D(i)
      /\ \A i \in DOMAIN m.types : \A x \in D(i) : \E h \in held : m.spans[h][i] = x
      /\ \A g \in held, h \in held, i \in DOMAIN m.types :
            m.spans[g][i] = m.spans[h][i] /\ m.spans[g][i] # -1 => g = h
  BY DEF Owned
<1>3. ASSUME NEW i \in DOMAIN m.types
      PROVE  /\ m.types[i] \in DOMAIN m.planners /\ Sound(get_planner_at(m, i))
             /\ parts[i] # -1 => rem(i).ok = TRUE /\ DOMAIN rem(i).p.spans = D(i) \ {parts[i]}
             /\ -1 \notin D(i)
  <2>1. /\ m.types[i] \in DOMAIN m.planners /\ Sound(get_planner_at(m, i))
    BY DEF OInv, PInv, PlannerOK, ToSet, get_planner_at
  <2>2. parts[i] # -1 => parts[i] \in D(i)
    BY <1>2
  <2> HIDE DEF parts
  <2> QED BY <2>1, <2>2, RemovedPart, NoPart
<1>4. fail = {} /\ DOMAIN parts = DOMAIN m.types
  <2>1. DOMAIN parts = DOMAIN m.types
    BY <1>2
  <2> HIDE DEF rem, parts
  <2> QED BY <1>3, <2>1
<1>5. done = {i \in DOMAIN m.types : parts[i] # -1}
  <2> HIDE DEF fail, parts
  <2> QED BY <1>4
<1>6. ASSUME NEW i \in DOMAIN m.types PROVE DOMAIN Q[m.types[i]].spans = D(i) \ {parts[i]}
  <2>1. /\ (\E k \in done : m.types[k] = m.types[i]) <=> i \in done
        /\ i \in done => (CHOOSE k \in done : m.types[k] = m.types[i]) = i
    <3> HIDE DEF done
    <3> QED BY <1>5, IndexOf DEF OInv
  <2>2. Q[m.types[i]] = IF i \in done THEN rem(i).p ELSE get_planner_at(m, i)
    <3> HIDE DEF done, rem
    <3> QED BY <1>3, <2>1 DEF get_planner_at
  <2>3. i \in done <=> parts[i] # -1
    BY <1>5
  <2> HIDE DEF Q, done, rem, parts
  <2> QED BY <1>3, <2>2, <2>3
<1>7. a = [m |-> [m1 EXCEPT !.spans = S], ok |-> TRUE]
  <2>1. m1.spans = m.spans
    <3> HIDE DEF Q
    <3> QED BY DEF OInv, PInv, MultiFields
  <2> QED BY <1>1, <1>4, <2>1 DEF planner_multi_rem_span
<1>8. \A h \in held \ {id} : S[h] = m.spans[h]
  BY <1>1 DEF Restrict
<1> HIDE DEF Q, S
<1>9. a.m.types = m.types /\ a.m.planners = Q /\ a.m.spans = S /\ a.ok = TRUE
  <2> DEFINE o == [m1 EXCEPT !.spans = S]
  <2> HIDE DEF a
  <2>1. a.m = o /\ a.ok = TRUE
    <3> HIDE DEF o
    <3> QED BY <1>7, Zenon DEF o
  <2>2. o.types = m.types /\ o.planners = Q /\ o.spans = S
    BY DEF OInv, PInv, MultiFields
  <2> QED BY <2>1, <2>2
<1> HIDE DEF a, rem
<1>10. \A i \in DOMAIN m.types : DOMAIN get_planner_at(a.m, i).spans = D(i) \ {m.spans[id][i]}
  BY <1>6, <1>9 DEF get_planner_at
<1> HIDE DEF D
<1>11. Owned(a.m, held \ {id})
  <2>1. \A h \in held \ {id}, i \in DOMAIN m.types :
           S[h][i] # -1 => S[h][i] \in D(i) \ {m.spans[id][i]}
    BY <1>2, <1>8
  <2>2. \A i \in DOMAIN m.types : \A x \in D(i) \ {m.spans[id][i]} :
           \E h \in held \ {id} : S[h][i] = x
    BY <1>2, <1>8
  <2> QED BY <1>2, <1>8, <1>9, <1>10, <2>1, <2>2 DEF Owned
<1> QED BY <1>9, <1>11 DEF a

\* A span that is reduced gives up the parts of which nothing is left.
LEMMA ReduceOwned ==
    ASSUME OInv, NEW id \in held, NEW counts, \A ty \in DOMAIN counts : counts[ty] \in Nat,
           Owned(m, held)
    PROVE  LET a == planner_multi_reduce_span(m, id, counts)
           IN  Owned(a.m, IF a.removed THEN held \ {id} ELSE held)
<1> DEFINE parts == m.spans[id]
           amount(i) == IF m.types[i] \in DOMAIN counts THEN counts[m.types[i]] ELSE 0
           red(i) == planner_reduce_span(get_planner_at(m, i), parts[i], amount(i))
           fail   == {i \in DOMAIN m.types :
                        ~red(i).ok /\ planner_is_active_span(get_planner_at(m, i), parts[i])}
           first  == {i \in DOMAIN m.types : m.types[i] \in DOMAIN counts}
           before(i, k) == IF i \in first THEN k \in first => i < k
                                          ELSE k \notin first /\ i < k
           done   == {i \in DOMAIN m.types : \A k \in fail : i # k /\ before(i, k)}
           parts1 == [i \in DOMAIN parts |->
                        IF i \in done /\ red(i).removed THEN -1 ELSE parts[i]]
           gone   == fail = {} /\ \A i \in DOMAIN parts : parts1[i] = -1
           Q == [ty \in DOMAIN m.planners |->
                   IF \E i \in done : m.types[i] = ty
                     THEN red(CHOOSE i \in done : m.types[i] = ty).p ELSE m.planners[ty]]
           S == IF gone THEN Restrict(m.spans, DOMAIN m.spans \ {id})
                ELSE [m.spans EXCEPT ![id] = parts1]
           a == planner_multi_reduce_span(m, id, counts)
           ids == IF gone THEN held \ {id} ELSE held
           D(i) == DOMAIN get_planner_at(m, i).spans
           lost(i) == i \in done /\ red(i).removed
           E(i) == IF lost(i) THEN D(i) \ {parts[i]} ELSE D(i)
<1>1. id \in DOMAIN m.spans /\ held \subseteq DOMAIN m.spans
  BY DEF OInv, PInv
<1>2. /\ \A h \in held : DOMAIN m.spans[h] = DOMAIN m.types
      /\ \A h \in held, i \in DOMAIN m.types : m.spans[h][i] # -1 => m.spans[h][i] \in D(i)
      /\ \A i \in DOMAIN m.types : \A x \in D(i) : \E h \in held : m.spans[h][i] = x
      /\ \A g \in held, h \in held, i \in DOMAIN m.types :
            m.spans[g][i] = m.spans[h][i] /\ m.spans[g][i] # -1 => g = h
  BY DEF Owned
<1>3. ASSUME NEW i \in DOMAIN m.types
      PROVE  /\ m.types[i] \in DOMAIN m.planners
             /\ red(i).removed => parts[i] \in D(i)
             /\ DOMAIN red(i).p.spans = IF red(i).removed THEN D(i) \ {parts[i]} ELSE D(i)
             /\ -1 \notin D(i)
  <2>1. m.types[i] \in DOMAIN m.planners /\ Sound(get_planner_at(m, i))
    BY DEF OInv, PInv, PlannerOK, ToSet, get_planner_at
  <2>2. amount(i) \in Nat
    OBVIOUS
  <2> HIDE DEF parts, amount
  <2>3. LET z == planner_reduce_span(get_planner_at(m, i), parts[i], amount(i))
        IN  /\ z.removed => parts[i] \in D(i)
            /\ DOMAIN z.p.spans = IF z.removed THEN D(i) \ {parts[i]} ELSE D(i)
    BY <2>1, <2>2, ReducedPart
  <2> QED BY <2>1, <2>3, NoPart
<1>4. done \subseteq DOMAIN m.types /\ DOMAIN parts = DOMAIN m.types
  BY <1>2
<1>5. ASSUME NEW i \in DOMAIN m.types PROVE DOMAIN Q[m.types[i]].spans = E(i)
  <2>1. /\ (\E k \in done : m.types[k] = m.types[i]) <=> i \in done
        /\ i \in done => (CHOOSE k \in done : m.types[k] = m.types[i]) = i
    <3> HIDE DEF done
    <3> QED BY <1>4, IndexOf DEF OInv
  <2>2. Q[m.types[i]] = IF i \in done THEN red(i).p ELSE get_planner_at(m, i)
    <3> HIDE DEF done, red
    <3> QED BY <1>3, <2>1 DEF get_planner_at
  <2> HIDE DEF Q, done, red, parts
  <2> QED BY <1>3, <2>2
<1>6. \A i \in DOMAIN m.types : parts1[i] = IF lost(i) THEN -1 ELSE m.spans[id][i]
  <2> HIDE DEF done, red
  <2> QED BY <1>4
<1>7. DOMAIN parts1 = DOMAIN m.types
  <2> HIDE DEF done, red
  <2> QED BY <1>4
<1>8. gone => \A i \in DOMAIN m.types : parts1[i] = -1
  <2> HIDE DEF parts1, fail
  <2> QED BY <1>4
<1>9. a = [m |-> [m EXCEPT !.planners = Q, !.spans = S], ok |-> fail = {}, removed |-> gone]
  BY <1>1 DEF planner_multi_reduce_span
<1>10. \A h \in held \ {id} : S[h] = m.spans[h]
  <2> HIDE DEF gone, parts1
  <2> QED BY <1>1 DEF Restrict
<1>11. ~gone => S[id] = parts1
  <2> HIDE DEF gone, parts1
  <2> QED BY <1>1
<1>12. \A i \in DOMAIN m.types : lost(i) => m.spans[id][i] \in D(i) /\ m.spans[id][i] # -1
  <2> HIDE DEF done, red
  <2> QED BY <1>3
<1> HIDE DEF Q, S, gone, fail
<1>13. a.m.types = m.types /\ a.m.planners = Q /\ a.m.spans = S
  <2> DEFINE o == [m EXCEPT !.planners = Q, !.spans = S]
  <2>1. a.m = o
    <3> HIDE DEF a
    <3> QED BY <1>9, Zenon
  <2> HIDE DEF a
  <2> QED BY <2>1 DEF OInv, PInv, MultiFields
<1>14. a.removed = gone
  BY <1>9
<1> HIDE DEF a, red, done, parts1, lost
<1>15. \A i \in DOMAIN m.types :
          DOMAIN get_planner_at(a.m, i).spans = IF lost(i) THEN D(i) \ {m.spans[id][i]} ELSE D(i)
  BY <1>5, <1>13 DEF get_planner_at
<1> HIDE DEF D
<1>16. Owned(a.m, ids)
  <2> DEFINE F(i) == IF lost(i) THEN D(i) \ {m.spans[id][i]} ELSE D(i)
  <2>1. \A h \in ids : DOMAIN S[h] = DOMAIN m.types
    BY <1>2, <1>7, <1>10, <1>11
  <2>2. ASSUME NEW h \in ids, NEW i \in DOMAIN m.types
        PROVE  S[h][i] = IF h = id /\ lost(i) THEN -1 ELSE m.spans[h][i]
    BY <1>6, <1>10, <1>11, <2>2
  <2>3. ASSUME NEW h \in ids, NEW i \in DOMAIN m.types, S[h][i] # -1 PROVE S[h][i] \in F(i)
    <3>1. S[h][i] = m.spans[h][i] /\ h \in held /\ ~(h = id /\ lost(i))
      BY <2>2, <2>3
    <3>2. S[h][i] \in D(i)
      BY <1>2, <2>3, <3>1
    <3>3. lost(i) => m.spans[h][i] # m.spans[id][i]
      BY <1>2, <2>3, <3>1
    <3> QED BY <3>1, <3>2, <3>3
  <2>4. ASSUME NEW i \in DOMAIN m.types, NEW x \in F(i) PROVE \E h \in ids : S[h][i] = x
    <3>1. x \in D(i)
      BY <2>4
    <3>2. PICK h \in held : m.spans[h][i] = x
      BY <1>2, <3>1
    <3>3. x # -1
      BY <1>3, <3>1 DEF D
    <3>4. h = id => ~lost(i)
      BY <2>4, <3>2
    <3>5. h \in ids
      BY <1>6, <1>8, <3>2, <3>3, <3>4
    <3> QED BY <2>2, <3>2, <3>4, <3>5
  <2>5. ASSUME NEW g \in ids, NEW h \in ids, NEW i \in DOMAIN m.types, S[g][i] = S[h][i], S[g][i] # -1
        PROVE  g = h
    <3>1. S[g][i] = m.spans[g][i] /\ S[h][i] = m.spans[h][i] /\ g \in held /\ h \in held
      BY <2>2, <2>5
    <3>2. m.spans[g][i] = m.spans[h][i] /\ m.spans[g][i] # -1
      BY <2>5, <3>1
    <3> HIDE DEF F, ids
    <3> QED BY <1>2, <3>1, <3>2
  <2> HIDE DEF F, ids
  <2> QED BY <1>13, <1>15, <2>1, <2>3, <2>4, <2>5 DEF Owned, F
<1> QED BY <1>14, <1>16 DEF a

\* Calls other than those that add spans leave their number.
LEMMA SameCounter ==
    ASSUME PInv
    PROVE  /\ \A id : planner_multi_rem_span(m, id).m.counter = m.counter
           /\ \A id, counts : planner_multi_reduce_span(m, id, counts).m.counter = m.counter
           /\ planner_multi_copy(m).counter = m.counter
           /\ planner_multi_reset(m, 0, PlanEnd).counter = m.counter
           /\ \A types, totals : planner_multi_update(m, types, totals).counter = m.counter
<1>1. DOMAIN m = MultiFields
  BY DEF PInv
<1>2. ASSUME NEW Q PROVE [m EXCEPT !.planners = Q].counter = m.counter
  BY <1>1 DEF MultiFields
<1>3. ASSUME NEW Q, NEW S PROVE [m EXCEPT !.planners = Q, !.spans = S].counter = m.counter
  BY <1>1 DEF MultiFields
<1>4. ASSUME NEW id PROVE planner_multi_rem_span(m, id).m.counter = m.counter
  <2>1. PICK Q, S : \/ planner_multi_rem_span(m, id).m = m
                    \/ planner_multi_rem_span(m, id).m = [m EXCEPT !.planners = Q]
                    \/ planner_multi_rem_span(m, id).m = [[m EXCEPT !.planners = Q] EXCEPT !.spans = S]
    BY DEF planner_multi_rem_span
  <2> QED BY <1>1, <2>1 DEF MultiFields
<1>5. ASSUME NEW id, NEW counts PROVE planner_multi_reduce_span(m, id, counts).m.counter = m.counter
  <2>1. PICK Q, S : \/ planner_multi_reduce_span(m, id, counts).m = m
                    \/ planner_multi_reduce_span(m, id, counts).m = [m EXCEPT !.planners = Q, !.spans = S]
    BY DEF planner_multi_reduce_span
  <2> QED BY <1>1, <2>1 DEF MultiFields
<1>6. planner_multi_copy(m).counter = m.counter
  BY <1>2 DEF planner_multi_copy
<1>7. planner_multi_reset(m, 0, PlanEnd).counter = m.counter
  BY <1>2 DEF planner_multi_reset
<1>8. ASSUME NEW types, NEW totals PROVE planner_multi_update(m, types, totals).counter = m.counter
  <2>1. PICK Q, C : \/ planner_multi_update(m, types, totals) = m
                    \/ planner_multi_update(m, types, totals)
                         = [m EXCEPT !.types = types, !.planners = Q, !.iter.counts = C]
    BY DEF planner_multi_update
  <2> QED BY <1>1, <2>1 DEF MultiFields
<1> QED BY <1>4, <1>5, <1>6, <1>7, <1>8

\* Queries leave the parts where they are.
LEMMA QueryOwned ==
    ASSUME OInv, NEW mm, DOMAIN mm = MultiFields, mm.types = m.types, mm.planners = m.planners,
           mm.spans = m.spans, mm.counter = m.counter,
           NEW q, Kept(get_planner_at(m, 1), q)
    PROVE  LET r == SetPlanner(mm, 1, q)
           IN  r.counter = m.counter /\ (Owned(m, held) => Owned(r, held))
<1> DEFINE r == SetPlanner(mm, 1, q)
           x == m.types[1]
           Q == [m.planners EXCEPT ![x] = q]
<1>1. r = [mm EXCEPT !.planners = Q]
  BY DEF SetPlanner, MultiFields
<1>2. \A i \in DOMAIN m.types : Q[m.types[i]].spans = get_planner_at(m, i).spans
  <2>1. q.spans = m.planners[x].spans /\ x \in DOMAIN m.planners
    BY FirstType DEF Kept, Same, get_planner_at, OInv
  <2>2. \A i \in DOMAIN m.types : m.types[i] \in DOMAIN m.planners
    BY DEF OInv, PInv, ToSet
  <2> QED BY <2>1, <2>2 DEF get_planner_at
<1> HIDE DEF Q
<1>3. r.types = m.types /\ r.planners = Q /\ r.spans = m.spans /\ r.counter = m.counter
  BY <1>1 DEF MultiFields
<1> HIDE DEF r
<1>4. \A i \in DOMAIN m.types : get_planner_at(r, i).spans = get_planner_at(m, i).spans
  BY <1>2, <1>3 DEF get_planner_at
<1>5. Owned(m, held) => Owned(r, held)
  BY <1>3, <1>4 DEF Owned
<1> QED BY <1>3, <1>5 DEF r

\* A call that leaves mm, which is then settled.
LEMMA CallOwned ==
    ASSUME PInv', NEW mm, DOMAIN mm = MultiFields, IsInjective(mm.types),
           m' = Settled(mm, held'), held' \subseteq DOMAIN mm.spans,
           mm.counter \in Nat, \A h \in held' : h \in Nat /\ h < mm.counter,
           ~faults'.leak /\ ~faults'.moved => Owned(mm, held')
    PROVE  OInv'
<1>1. m'.counter = mm.counter /\ (Owned(mm, held') => Owned(m', held'))
  BY SettledSpans
<1>2. m'.types = mm.types
  BY SettledFields
<1> QED BY <1>1, <1>2 DEF OInv

\* An update with spans held that leaves the types in their order leaves the parts
\* with their spans; without spans there are no parts.
LEMMA UpdateOwned ==
    ASSUME OInv, PInv', NEW types \in Seq(Types), types # << >>, ToSet(types) \subseteq Types,
           IsInjective(types), NEW totals \in NewTotals, Update(types, totals)
    PROVE  OInv'
<1> DEFINE r == planner_multi_update(m, types, totals)
           v == faults.moved \/ (held # {} /\ types # m.types)
<1>0. totals \in [Types -> Nat] /\ PInv
  BY PlannerAssumption DEF Types, OInv
<1>1. /\ DOMAIN r = MultiFields /\ r.types = types /\ r.spans = m.spans
      /\ \A ty \in ToSet(types) :
            IF ty \in DOMAIN m.planners
              THEN r.planners[ty] = planner_update_total(m.planners[ty], totals[ty])
              ELSE r.planners[ty] = planner_new(0, PlanEnd, totals[ty])
  BY <1>0, UpdatedAll
<1>2. m' = Settled(r, held') /\ held' = held
  BY DEF Update
<1>3. r.counter = m.counter
  BY <1>0, SameCounter
<1>4. faults'.leak = faults.leak /\ faults'.moved = v
  <2> DEFINE s == (faults.stale \cap ToSet(types))
                    \cup {ty \in ToSet(types) \cap DOMAIN m.planners :
                             totals[ty] # m.planners[ty].total}
             c == (faults.clamped \cap ToSet(types))
                    \cup {ty \in ToSet(types) \cap DOMAIN m.planners :
                             \E t \in Times(m.planners[ty]) :
                                m.planners[ty].points[t].scheduled > totals[ty]}
             k == faults.copied \cap ToSet(types)
  <2>1. faults' = [faults EXCEPT !.moved = v, !.stale = s, !.clamped = c, !.copied = k]
    BY <1>0 DEF Update, PInv, FaultFields
  <2> HIDE DEF v, s, c, k
  <2> QED BY <1>0, <2>1 DEF PInv, FaultFields
<1>5. ASSUME NEW i \in DOMAIN types
      PROVE  /\ types[i] \in DOMAIN m.planners =>
                   get_planner_at(r, i).spans = m.planners[types[i]].spans
             /\ types[i] \notin DOMAIN m.planners => DOMAIN get_planner_at(r, i).spans = {}
  <2> DEFINE ty == types[i]
  <2>1. ty \in ToSet(types) /\ get_planner_at(r, i) = r.planners[ty]
    BY <1>1 DEF ToSet, get_planner_at
  <2>2. totals[ty] \in Nat
    BY <1>0, <2>1
  <2> HIDE DEF r, ty
  <2>3. CASE ty \in DOMAIN m.planners
    <3>1. Sound(m.planners[ty])
      BY <1>0, <2>3 DEF PInv, PlannerOK
    <3>2. planner_update_total(m.planners[ty], totals[ty]).spans = m.planners[ty].spans
      BY <2>2, <3>1, TotalUpdated
    <3> QED BY <1>1, <2>1, <2>3, <3>2 DEF ty
  <2>4. CASE ty \notin DOMAIN m.planners
    <3>1. planner_new(0, PlanEnd, totals[ty]).spans = [k \in {} |-> 0]
      BY <2>2, FreshPlanner
    <3>2. r.planners[ty] = planner_new(0, PlanEnd, totals[ty])
      BY <1>1, <2>1, <2>4
    <3>3. DOMAIN get_planner_at(r, i).spans = {}
      BY <2>1, <3>1, <3>2
    <3> QED BY <2>4, <3>3 DEF ty
  <2> QED BY <2>3, <2>4
<1> HIDE DEF r
<1>6. ASSUME ~faults'.leak, ~faults'.moved PROVE Owned(r, held')
  <2>1. Owned(m, held) /\ (held = {} \/ types = m.types)
    BY <1>4, <1>6 DEF OInv
  <2>2. CASE types = m.types
    <3>1. \A i \in DOMAIN m.types : m.types[i] \in DOMAIN m.planners
      BY <1>0 DEF PInv, ToSet
    <3>2. \A i \in DOMAIN m.types : get_planner_at(r, i).spans = get_planner_at(m, i).spans
      BY <1>5, <2>2, <3>1 DEF get_planner_at
    <3> QED BY <1>1, <1>2, <2>1, <2>2, <3>2 DEF Owned
  <2>3. CASE held = {}
    <3>1. \A ty \in DOMAIN m.planners : DOMAIN m.planners[ty].spans = {}
      <4>1. \A ty \in DOMAIN m.planners : \E i \in DOMAIN m.types : m.types[i] = ty
        BY <1>0 DEF PInv, ToSet
      <4>2. \A i \in DOMAIN m.types : DOMAIN get_planner_at(m, i).spans = {}
        BY <2>1, <2>3 DEF Owned
      <4> QED BY <4>1, <4>2 DEF get_planner_at
    <3>2. \A i \in DOMAIN types : DOMAIN get_planner_at(r, i).spans = {}
      BY <1>5, <3>1
    <3> QED BY <1>1, <1>2, <2>3, <3>2 DEF Owned
  <2> QED BY <2>1, <2>2, <2>3
<1>7. held \subseteq DOMAIN m.spans /\ m.counter \in Nat /\ \A h \in held : h \in Nat /\ h < m.counter
  BY <1>0 DEF PInv, OInv
<1> QED BY <1>1, <1>2, <1>3, <1>6, <1>7, CallOwned

\* The types of the filter, in the orders an update may give them, are distinct.
LEMMA TypesDistinct ==
    ASSUME NEW types \in {ResType, Reverse(ResType), Tail(ResType)} \ {<< >>}
    PROVE  /\ types \in Seq(Types) /\ types # << >> /\ ToSet(types) \subseteq Types
           /\ IsInjective(types)
<1>1. ResType \in Seq(Types) /\ ResType # << >> /\ IsInjective(ResType)
  BY PlannerAssumption DEF Types
<1>2. Tail(ResType) \in Seq(Types) /\ IsInjective(Tail(ResType))
  <2>1. /\ Tail(ResType) \in Seq(Types) /\ DOMAIN Tail(ResType) = 1 .. (Len(ResType) - 1)
        /\ \A i \in 1 .. (Len(ResType) - 1) : Tail(ResType)[i] = ResType[i + 1]
    BY <1>1
  <2>2. DOMAIN ResType = 1 .. Len(ResType) /\ Len(ResType) \in Nat
    BY <1>1
  <2> QED BY <1>1, <2>1, <2>2 DEF IsInjective
<1>3. Reverse(ResType) \in Seq(Types) /\ IsInjective(Reverse(ResType))
  <2>1. Reverse(ResType) \in Seq(Types)
    BY <1>1 DEF Reverse
  <2>2. /\ DOMAIN Reverse(ResType) = 1 .. Len(ResType)
        /\ \A i \in 1 .. Len(ResType) : Reverse(ResType)[i] = ResType[Len(ResType) - i + 1]
    BY <1>1 DEF Reverse
  <2>3. DOMAIN ResType = 1 .. Len(ResType) /\ Len(ResType) \in Nat
    BY <1>1
  <2>4. ASSUME NEW i \in 1 .. Len(ResType), NEW k \in 1 .. Len(ResType),
               Reverse(ResType)[i] = Reverse(ResType)[k]
        PROVE  i = k
    <3>1. Len(ResType) - i + 1 \in DOMAIN ResType /\ Len(ResType) - k + 1 \in DOMAIN ResType
      BY <2>3
    <3>2. ResType[Len(ResType) - i + 1] = ResType[Len(ResType) - k + 1]
      BY <2>2, <2>4
    <3>3. Len(ResType) - i + 1 = Len(ResType) - k + 1
      BY <1>1, <3>1, <3>2 DEF IsInjective
    <3> QED BY <2>3, <3>3
  <2> QED BY <2>1, <2>2, <2>4 DEF IsInjective
<1>4. types \in Seq(Types) /\ IsInjective(types)
  BY <1>1, <1>2, <1>3, Zenon
<1>5. ToSet(types) \subseteq Types
  BY <1>4 DEF ToSet
<1> QED BY <1>4, <1>5

\* At the start there are no parts.
LEMMA OwnedFirst == PInit => OInv
<1> SUFFICES ASSUME PInit PROVE OInv
  OBVIOUS
<1>1. PInv
  BY Begins
<1>2. /\ m.types = ResType /\ m.counter = 0 /\ held = {}
      /\ m.planners = [ty \in Types |-> planner_new(0, PlanEnd, Total[ty])]
  BY DEF PInit, planner_multi_new, Types
<1>3. IsInjective(m.types)
  BY <1>2, PlannerAssumption
<1>4. \A i \in DOMAIN m.types : DOMAIN get_planner_at(m, i).spans = {}
  <2>1. ASSUME NEW i \in DOMAIN m.types PROVE DOMAIN get_planner_at(m, i).spans = {}
    <3>1. ResType[i] \in Types
      BY <1>2 DEF Types, ToSet
    <3>2. get_planner_at(m, i) = planner_new(0, PlanEnd, Total[ResType[i]])
      BY <1>2, <3>1 DEF get_planner_at
    <3>3. Total[ResType[i]] \in Nat
      BY <3>1, PlannerAssumption DEF Types
    <3>4. get_planner_at(m, i).spans = [k \in {} |-> 0]
      BY <3>2, <3>3, FreshPlanner
    <3> QED BY <3>4
  <2> QED BY <2>1
<1>5. Owned(m, held)
  BY <1>2, <1>4 DEF Owned
<1> QED BY <1>1, <1>2, <1>3, <1>5 DEF OInv

\* Every call keeps the parts with their spans.
LEMMA OwnedNext ==
    ASSUME OInv, PNext
    PROVE  OInv'
<1>0. /\ PInv /\ PInv' /\ IsInjective(m.types) /\ m.counter \in Nat /\ held \subseteq DOMAIN m.spans
      /\ \A h \in held : h \in Nat /\ h < m.counter
      /\ DOMAIN m = MultiFields /\ DOMAIN faults = FaultFields
  BY NextKeeps DEF OInv, PInv
<1>1. ASSUME NEW r \in Requests, AddSpan(r) PROVE OInv'
  <2> DEFINE a == planner_multi_add_span(m, r.start, r.duration, r.counts)
             v == faults.leak \/ (a.id = -1 /\ a.m.planners # m.planners)
  <2>1. /\ AllStep(a.m) /\ DOMAIN m.spans \subseteq DOMAIN a.m.spans
        /\ a.id # -1 => a.id \in DOMAIN a.m.spans
    BY <1>0, AddedAll
  <2>2. /\ m' = Settled(a.m, held')
        /\ held' = IF a.id = -1 THEN held ELSE held \cup {a.id}
        /\ faults' = [faults EXCEPT !.leak = v]
    BY <1>1 DEF AddSpan
  <2>3. /\ a.m.counter = m.counter + 1 /\ a.m.types = m.types
        /\ a.id # -1 => a.id = m.counter
        /\ a.id # -1 /\ Owned(m, held) => Owned(a.m, held \cup {a.id})
        /\ a.id = -1 /\ a.m.planners = m.planners /\ Owned(m, held) => Owned(a.m, held)
    BY AddOwned
  <2> HIDE DEF a, v
  <2>4. faults'.leak = v /\ faults'.moved = faults.moved
    BY <1>0, <2>2 DEF FaultFields
  <2>5. ASSUME ~faults'.leak, ~faults'.moved PROVE Owned(a.m, held')
    <3>1. ~v /\ ~faults.moved
      BY <2>4, <2>5
    <3>2. Owned(m, held) /\ ~(a.id = -1 /\ a.m.planners # m.planners)
      BY <3>1 DEF v, OInv
    <3> QED BY <2>2, <2>3, <3>2
  <2>6. /\ DOMAIN a.m = MultiFields /\ held' \subseteq DOMAIN a.m.spans
        /\ a.m.counter \in Nat /\ \A h \in held' : h \in Nat /\ h < a.m.counter
    BY <1>0, <2>1, <2>2, <2>3 DEF AllStep, AllAdvance
  <2> QED BY <1>0, <2>2, <2>3, <2>5, <2>6, CallOwned
<1>2. ASSUME NEW id \in held, RemSpan(id) PROVE OInv'
  <2> DEFINE a == planner_multi_rem_span(m, id)
  <2>1. /\ AllStep(a.m) /\ DOMAIN m.spans \ {id} \subseteq DOMAIN a.m.spans
        /\ ~a.ok => DOMAIN m.spans \subseteq DOMAIN a.m.spans
    BY <1>0, RemovedAll
  <2>2. /\ m' = Settled(a.m, held') /\ held' = IF a.ok THEN held \ {id} ELSE held
        /\ faults' = faults
    BY <1>2 DEF RemSpan
  <2>3. Owned(m, held) => a.ok = TRUE /\ Owned(a.m, held \ {id})
    BY RemoveOwned
  <2>4. a.m.counter = m.counter
    BY <1>0, SameCounter
  <2> HIDE DEF a
  <2>5. ~faults'.leak /\ ~faults'.moved => Owned(a.m, held')
    BY <2>2, <2>3 DEF OInv
  <2>6. DOMAIN a.m = MultiFields /\ a.m.types = m.types /\ held' \subseteq DOMAIN a.m.spans
    BY <1>0, <2>1, <2>2 DEF AllStep, AllAdvance
  <2>7. \A h \in held' : h \in Nat /\ h < a.m.counter
    BY <1>0, <2>2, <2>4
  <2> QED BY <1>0, <2>2, <2>4, <2>5, <2>6, <2>7, CallOwned
<1>3. ASSUME NEW id \in held, NEW ty \in Types, NEW n \in 0 .. 1,
             ReduceSpan(id, [x \in {ty} |-> n])
      PROVE  OInv'
  <2> DEFINE counts == [x \in {ty} |-> n]
             a == planner_multi_reduce_span(m, id, counts)
  <2>0. \A x \in DOMAIN counts : counts[x] \in Nat
    OBVIOUS
  <2>2. /\ m' = Settled(a.m, held') /\ held' = IF a.removed THEN held \ {id} ELSE held
        /\ faults' = faults
    BY <1>3 DEF ReduceSpan
  <2> HIDE DEF counts
  <2>1. /\ AllStep(a.m) /\ DOMAIN m.spans \ {id} \subseteq DOMAIN a.m.spans
        /\ ~a.removed => DOMAIN m.spans \subseteq DOMAIN a.m.spans
    BY <1>0, <2>0, ReducedAll
  <2>3. Owned(m, held) => Owned(a.m, held')
    BY <2>0, <2>2, ReduceOwned
  <2>4. a.m.counter = m.counter
    BY <1>0, SameCounter
  <2> HIDE DEF a
  <2>5. ~faults'.leak /\ ~faults'.moved => Owned(a.m, held')
    BY <2>2, <2>3 DEF OInv
  <2>6. DOMAIN a.m = MultiFields /\ a.m.types = m.types /\ held' \subseteq DOMAIN a.m.spans
    BY <1>0, <2>1, <2>2 DEF AllStep, AllAdvance
  <2>7. \A h \in held' : h \in Nat /\ h < a.m.counter
    BY <1>0, <2>2, <2>4
  <2> QED BY <1>0, <2>2, <2>4, <2>5, <2>6, <2>7, CallOwned
<1>4. ASSUME NEW r \in Queries, AvailTimeFirst(r) PROVE OInv'
  <2> DEFINE mm == [m EXCEPT !.iter = [duration |-> r.duration, counts |-> r.counts]]
  <2>1. PICK q : Kept(get_planner_at(m, 1), q) /\ Ask(r).m = SetPlanner(mm, 1, q)
    BY <1>0, AskedFirst
  <2>2. /\ DOMAIN mm = MultiFields /\ mm.types = m.types /\ mm.planners = m.planners
        /\ mm.spans = m.spans /\ mm.counter = m.counter
    BY <1>0 DEF MultiFields
  <2> HIDE DEF mm
  <2>3. Ask(r).m.counter = m.counter /\ (Owned(m, held) => Owned(Ask(r).m, held))
    BY <2>1, <2>2, QueryOwned
  <2>4. AllStep(Ask(r).m) /\ Ask(r).m.spans = m.spans
    BY <1>0, AskedFirstAll
  <2>5. m' = Settled(Ask(r).m, held') /\ held' = held /\ faults' = faults
    BY <1>4 DEF AvailTimeFirst
  <2>6. ~faults'.leak /\ ~faults'.moved => Owned(Ask(r).m, held')
    BY <2>3, <2>5 DEF OInv
  <2>7. DOMAIN Ask(r).m = MultiFields /\ Ask(r).m.types = m.types
    BY <2>4 DEF AllStep, AllAdvance
  <2> QED BY <1>0, <2>3, <2>4, <2>5, <2>6, <2>7, CallOwned
<1>5. ASSUME AvailTimeNext PROVE OInv'
  <2> DEFINE a == planner_multi_avail_time_next(m)
  <2>1. PICK q : Kept(get_planner_at(m, 1), q) /\ a.m = SetPlanner(m, 1, q)
    BY <1>0, AskedNext
  <2>2. AllStep(a.m) /\ a.m.spans = m.spans
    BY <1>0, AskedNextAll
  <2>3. m' = Settled(a.m, held') /\ held' = held /\ faults' = faults
    BY <1>5 DEF AvailTimeNext
  <2> HIDE DEF a
  <2>4. a.m.counter = m.counter /\ (Owned(m, held) => Owned(a.m, held))
    BY <1>0, <2>1, QueryOwned
  <2>5. ~faults'.leak /\ ~faults'.moved => Owned(a.m, held')
    BY <2>3, <2>4 DEF OInv
  <2>6. DOMAIN a.m = MultiFields /\ a.m.types = m.types
    BY <2>2 DEF AllStep, AllAdvance
  <2> QED BY <1>0, <2>2, <2>3, <2>4, <2>5, <2>6, CallOwned
<1>6. ASSUME NEW types \in {ResType, Reverse(ResType), Tail(ResType)} \ {<< >>},
             NEW totals \in NewTotals, Update(types, totals)
      PROVE  OInv'
  BY <1>0, <1>6, TypesDistinct, UpdateOwned
<1>7. ASSUME Reset PROVE OInv'
  <2> DEFINE r == planner_multi_reset(m, 0, PlanEnd)
             Q == [ty \in DOMAIN m.planners |-> planner_new(0, PlanEnd, m.planners[ty].total)]
  <2>1. r = [m EXCEPT !.planners = Q]
    <3>1. ~(PlanEnd < 1)
      BY PlannerAssumption
    <3> QED BY <3>1 DEF planner_multi_reset, planner_reset
  <2>2. \A ty \in DOMAIN m.planners : DOMAIN Q[ty].spans = {}
    <3>1. ASSUME NEW ty \in DOMAIN m.planners PROVE DOMAIN Q[ty].spans = {}
      <4>1. m.planners[ty].total \in Nat
        BY <1>0 DEF PInv, PlannerOK, Sound
      <4>2. Q[ty] = planner_new(0, PlanEnd, m.planners[ty].total)
        OBVIOUS
      <4> HIDE DEF Q
      <4>3. Q[ty].spans = [k \in {} |-> 0]
        BY <4>1, <4>2, FreshPlanner
      <4> QED BY <4>3
    <3> QED BY <3>1
  <2> HIDE DEF Q
  <2>3. DOMAIN r = MultiFields /\ r.types = m.types /\ r.planners = Q /\ r.counter = m.counter
    BY <1>0, <2>1 DEF MultiFields
  <2>4. m' = Settled(r, held') /\ held' = {}
    BY <1>7 DEF Reset
  <2> HIDE DEF r
  <2>5. \A i \in DOMAIN r.types : DOMAIN get_planner_at(r, i).spans = {}
    BY <1>0, <2>2, <2>3 DEF get_planner_at, PInv, ToSet
  <2>6. Owned(r, held')
    BY <2>4, <2>5 DEF Owned
  <2> QED BY <1>0, <2>3, <2>4, <2>6, CallOwned
<1>8. ASSUME Clone PROVE OInv'
  <2> DEFINE r == planner_multi_copy(m)
             Q == [ty \in DOMAIN m.planners |-> planner_copy(m.planners[ty])]
  <2>1. r = [m EXCEPT !.planners = Q]
    BY DEF planner_multi_copy
  <2>2. \A ty \in DOMAIN m.planners : Q[ty].spans = m.planners[ty].spans
    <3>1. ASSUME NEW ty \in DOMAIN m.planners PROVE Q[ty].spans = m.planners[ty].spans
      <4>1. Sound(m.planners[ty])
        BY <1>0 DEF PInv, PlannerOK
      <4>2. planner_copy(m.planners[ty]).spans = m.planners[ty].spans
        BY <4>1, Copied
      <4> QED BY <4>2
    <3> QED BY <3>1
  <2> HIDE DEF Q
  <2>3. r.types = m.types /\ r.planners = Q /\ r.spans = m.spans /\ r.counter = m.counter
    BY <1>0, <2>1 DEF MultiFields
  <2>4. m' = r /\ held' = held
    BY <1>8 DEF Clone
  <2>5. faults'.leak = faults.leak /\ faults'.moved = faults.moved
    BY <1>0, <1>8 DEF Clone, FaultFields
  <2> HIDE DEF r
  <2>6. \A i \in DOMAIN m.types : get_planner_at(r, i).spans = get_planner_at(m, i).spans
    BY <1>0, <2>2, <2>3 DEF get_planner_at, PInv, ToSet
  <2>7. Owned(m, held) => Owned(r, held)
    BY <2>3, <2>6 DEF Owned
  <2> QED BY <1>0, <2>3, <2>4, <2>5, <2>7 DEF OInv
<1> QED BY <1>1, <1>2, <1>3, <1>4, <1>5, <1>6, <1>7, <1>8 DEF PNext

\* The invariant of the parts.
LEMMA OInvariance == PSpec => []OInv
<1>1. ASSUME OInv, UNCHANGED pvars PROVE OInv'
  BY <1>1, StutterKeeps DEF OInv, Owned, pvars
<1>2. OInv /\ [PNext]_pvars => OInv'
  BY <1>1, OwnedNext
<1> QED BY <1>2, OwnedFirst, PTL DEF PSpec

\* For every plan, every amount and every sequence of calls: what a planner holds are
\* the parts of the client's spans, each part of exactly one span, unless a refused
\* span has left parts behind or an update has moved the types.
THEOREM PartsOwned == PSpec => []NothingOrphaned
<1>1. OInv => NothingOrphaned
  <2> SUFFICES ASSUME OInv, ~faults.leak, ~faults.moved, NEW ty \in DOMAIN m.planners
               PROVE  LET i == CHOOSE k \in DOMAIN m.types : m.types[k] = ty
                          parts == [id \in {h \in held : m.spans[h][i] # -1} |-> m.spans[id][i]]
                      IN  IsInjective(parts) /\ Range(parts) = DOMAIN m.planners[ty].spans
    BY DEF NothingOrphaned
  <2> DEFINE i == CHOOSE k \in DOMAIN m.types : m.types[k] = ty
             parts == [id \in {h \in held : m.spans[h][i] # -1} |-> m.spans[id][i]]
             D == DOMAIN get_planner_at(m, i).spans
  <2>1. i \in DOMAIN m.types /\ m.types[i] = ty
    BY DEF OInv, PInv, ToSet
  <2> HIDE DEF i
  <2>2. Owned(m, held) /\ Sound(m.planners[ty]) /\ D = DOMAIN m.planners[ty].spans
    BY <2>1 DEF OInv, PInv, PlannerOK, get_planner_at
  <2>3. /\ \A h \in held : m.spans[h][i] # -1 => m.spans[h][i] \in D
        /\ \A id \in D : \E h \in held : m.spans[h][i] = id
        /\ \A g \in held, h \in held : m.spans[g][i] = m.spans[h][i] /\ m.spans[g][i] # -1 => g = h
    BY <2>1, <2>2 DEF Owned
  <2>4. -1 \notin D
    BY <2>2, NoPart
  <2> HIDE DEF D
  <2>5. IsInjective(parts)
    BY <2>3 DEF IsInjective
  <2>6. Range(parts) = D
    <3>1. ASSUME NEW h \in DOMAIN parts PROVE parts[h] \in D
      <4>1. h \in held /\ m.spans[h][i] # -1 /\ parts[h] = m.spans[h][i]
        OBVIOUS
      <4> QED BY <2>3, <4>1
    <3> HIDE DEF parts
    <3>2. ASSUME NEW x \in D PROVE x \in Range(parts)
      <4>1. PICK h \in held : m.spans[h][i] = x
        BY <2>3
      <4>2. h \in DOMAIN parts /\ parts[h] = x
        BY <2>4, <4>1 DEF parts
      <4> QED BY <4>2 DEF Range
    <3> QED BY <3>1, <3>2 DEF Range
  <2> QED BY <2>2, <2>5, <2>6 DEF i
<1> QED BY <1>1, OInvariance, PTL
=============================================================================
