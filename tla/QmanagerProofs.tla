--------------------------- MODULE QmanagerProofs ---------------------------
(***************************************************************************)
(* The inductive invariant of the queue manager and what follows from it.  *)
(* Besides QInv it says what may be in the channels between the queue      *)
(* manager and the resource module: only then is the iterator known to be  *)
(* on a job when a failure rejects "the iterator's job".                   *)
(***************************************************************************)
EXTENDS Qmanager, QueuePolicyProofs

\* The response that ends a stream and carries no verdict.
EndOfStream == [kind |-> "err", err |-> "ENODATA"]

\* A backfill loop has one match under way: its request names the iterator's job,
\* or its verdict is in flight, among ends of streams only.
BackfillChannels ==
    /\ q.active => q.iter # Nil
    /\ reqs # << >> => \E b \in BOOLEAN : reqs = << [jobs |-> <<q.iter>>, reserve |-> b] >>
    /\ \A i \in DOMAIN resps : resps[i] # EndOfStream =>
          /\ q.active /\ reqs = << >>
          /\ resps[i].kind = "ok" => resps[i].job = q.iter
          /\ \A k \in DOMAIN resps : k # i => resps[k] = EndOfStream

\* An fcfs loop has one stream under way: its request, or what is left of its
\* responses.  If the stream ends in a failure, enough jobs are pending for every
\* response that is left: that is why the failure finds a job.
FcfsChannels ==
    /\ ~q.active => resps = << >>
    /\ q.active =>
          \/ /\ resps = << >> /\ Len(reqs) = 1
             /\ Len(reqs[1].jobs) <= Cardinality(q.pending)
          \/ /\ reqs = << >> /\ resps # << >>
             /\ \A i \in DOMAIN resps : resps[i].kind = "err" <=> i = Len(resps)
             /\ resps[Len(resps)].err # "ENODATA" =>
                   Len(resps) <= Cardinality(q.pending)

\* No request outlives its loop.
Channels ==
    /\ ~q.active => reqs = << >>
    /\ Policy # "fcfs" => BackfillChannels
    /\ Policy = "fcfs" => FcfsChannels

\* The inductive invariant.
IInv == TypeOK /\ QInv(q) /\ Channels

-----------------------------------------------------------------------------
\* The queue after the handshakes.
LEMMA EmptyInv ==
    ASSUME NEW S \in SUBSET Job
    PROVE  LET r == reconstruct_queue(resource_changed(EmptyQueue), S)
           IN  QInv(r) /\ ~r.active
<1> DEFINE x == resource_changed(EmptyQueue)
           T == [j \in Job |-> IF j \in S THEN "RUNNING" ELSE x.state[j]]
           r == reconstruct_queue(x, S)
<1>1. EmptyQueue \in QueueState
  BY BaseAssumption DEF EmptyQueue, QueueState, JobState, Priority, Schedule, NoSchedule
<1>2. /\ EmptyQueue.state = [j \in Job |-> "NONE"] /\ EmptyQueue.pending = {}
      /\ EmptyQueue.blocked = {} /\ EmptyQueue.provisional = {}
      /\ EmptyQueue.canceled = {} /\ EmptyQueue.iter = Nil /\ ~EmptyQueue.active
  BY DEF EmptyQueue
<1> DEFINE y == [EmptyQueue EXCEPT !.schedulable = TRUE]
           z == [y EXCEPT !.reconsider = TRUE]
<1>3. z \in QueueState
  BY <1>1 DEF QueueState
<1>3a. /\ z.state = [j \in Job |-> "NONE"] /\ z.pending = {} /\ z.blocked = {}
       /\ z.provisional = {} /\ z.canceled = {} /\ z.iter = Nil /\ ~z.active
       /\ z.reconsider /\ ~y.active
  BY <1>1, <1>2 DEF QueueState
<1>3b. x = process_provisional_reconsider(z)
  BY <1>3a DEF resource_changed, reconsider_blocked_jobs
<1> HIDE DEF z, y
<1>3c. x = [z EXCEPT !.reconsider = FALSE, !.pending = z.pending \cup z.blocked,
                     !.blocked = {}, !.schedulable = @ \/ z.blocked # {}]
  BY <1>3a, <1>3b DEF process_provisional_reconsider
<1> HIDE DEF x
<1>3d. x \in QueueState
  BY <1>3, <1>3c, ZenonT(60) DEF QueueState
<1>4. /\ x.state = [j \in Job |-> "NONE"] /\ x.pending = {} /\ x.blocked = {}
      /\ x.provisional = {} /\ x.canceled = {} /\ x.iter = Nil /\ ~x.active
  BY <1>3, <1>3a, <1>3c DEF QueueState
<1>5. r = [x EXCEPT !.state = T, !.running = @ \cup S]
  BY DEF reconstruct_queue
<1>6. T \in [Job -> JobState] /\ \A j \in Job : T[j] # "PENDING"
  BY <1>4 DEF JobState
<1> HIDE DEF x, T, r
<1>7. r \in QueueState
  BY <1>3d, <1>5, <1>6 DEF QueueState
<1>8. /\ r.state = T /\ r.pending = {} /\ r.blocked = {} /\ r.provisional = {}
      /\ r.canceled = {} /\ r.iter = Nil /\ ~r.active
  BY <1>3d, <1>4, <1>5 DEF QueueState
<1>9. Partitioned(r) /\ Stamped(r) /\ Cursor(r) /\ Settled(r)
  BY <1>6, <1>8 DEF Partitioned, Stamped, Cursor, Settled
<1> QED BY <1>7, <1>8, <1>9 DEF QInv, r, x

\* The initial states satisfy the invariant.
LEMMA InitInv == Init => IInv
<1> SUFFICES ASSUME Init PROVE IInv
  OBVIOUS
<1>1. PICK S \in SUBSET Job :
          /\ q = reconstruct_queue(resource_changed(EmptyQueue), S)
          /\ jm = [j \in Job |-> IF j \in S THEN "alloced" ELSE "idle"]
          /\ rjobs = [j \in Job |-> IF j \in S THEN "ALLOCATED" ELSE "NONE"]
  BY DEF Init
<1>2. QInv(q) /\ ~q.active
  BY <1>1, EmptyInv
<1>3. reqs = << >> /\ resps = << >> /\ pls = AwaitPrep /\ est = [j \in Job |-> 0]
  BY DEF Init
<1>4. TypeOK
  <2>1. q \in QueueState
    BY <1>2 DEF QInv
  <2>2. jm \in [Job -> {"idle", "waiting", "alloced", "gone"}] /\ rjobs \in [Job -> RJobState]
    BY <1>1 DEF RJobState
  <2>3. pls \in Phase /\ est \in [Job -> Nat]
    BY <1>3 DEF AwaitPrep, Phase
  <2>4. reqs \in Seq([jobs : Seq(Job), reserve : BOOLEAN]) /\ resps \in Seq(Success \cup Failure)
    BY <1>3
  <2> QED BY <2>1, <2>2, <2>3, <2>4 DEF TypeOK
<1>5. Channels
  BY <1>2, <1>3 DEF Channels, BackfillChannels, FcfsChannels
<1> QED BY <1>2, <1>4, <1>5 DEF IInv

-----------------------------------------------------------------------------
\* A step that leaves the loop alone leaves the channel invariant alone.
LEMMA UndisturbedChannels ==
    ASSUME Channels, QInv(q), QInv(q'), Undisturbed(q, q'), UNCHANGED <<reqs, resps>>
    PROVE  Channels'
<1>1. CASE q.active
  <2>1. q'.active /\ q'.iter = q.iter /\ q'.pending = q.pending
    BY <1>1 DEF Undisturbed
  <2>2. Policy # "fcfs" /\ BackfillChannels => BackfillChannels'
    BY <1>1, <2>1 DEF BackfillChannels
  <2>3. Policy = "fcfs" /\ FcfsChannels => FcfsChannels'
    BY <1>1, <2>1 DEF FcfsChannels
  <2> QED BY <1>1, <2>1, <2>2, <2>3 DEF Channels
<1>2. CASE ~q.active
  <2>1. ~q'.active
    BY <1>2 DEF Undisturbed
  <2>2. Policy # "fcfs" /\ BackfillChannels => BackfillChannels'
    BY <1>2, <2>1 DEF BackfillChannels, Channels
  <2>3. Policy = "fcfs" /\ FcfsChannels => FcfsChannels'
    BY <1>2, <2>1 DEF FcfsChannels
  <2> QED BY <1>2, <2>1, <2>2, <2>3 DEF Channels
<1> QED BY <1>1, <1>2

\* So a callback that leaves the loop alone keeps the invariant.
LEMMA UndisturbedInv ==
    ASSUME IInv, QInv(q'), Undisturbed(q, q'), UNCHANGED <<reqs, resps>>,
           pls' \in Phase, jm' \in [Job -> {"idle", "waiting", "alloced", "gone"}],
           est' \in [Job -> Nat], rjobs' \in [Job -> RJobState]
    PROVE  IInv'
<1>1. Channels'
  BY UndisturbedChannels DEF IInv
<1>2. TypeOK'
  BY DEF IInv, TypeOK, QInv
<1> QED BY <1>1, <1>2 DEF IInv

\* calc_priority maps priorities to priorities.
LEMMA PriorityType ==
    ASSUME NEW p \in Priority
    PROVE  calc_priority(p) \in Priority
  BY BaseAssumption DEF calc_priority, Priority

\* jobmanager_alloc_cb keeps the invariant.
LEMMA AllocStep ==
    ASSUME IInv, NEW j \in Job, NEW p \in Priority, jobmanager_alloc_cb(j, p)
    PROVE  IInv'
<1>1. QInv(q') /\ Undisturbed(q, q')
  <2>1. QInv(q)
    BY DEF IInv
  <2>2. CASE q' = insert(q, j, calc_priority(p))
    BY <2>1, <2>2, PriorityType, InsertInv
  <2>3. CASE q' = q
    BY <2>1, <2>3 DEF Undisturbed
  <2> QED BY <2>2, <2>3 DEF jobmanager_alloc_cb
<1>2. UNCHANGED <<pls, est, rjobs, reqs, resps>>
  BY DEF jobmanager_alloc_cb, resource
<1>3. jm' \in [Job -> {"idle", "waiting", "alloced", "gone"}]
  BY DEF IInv, TypeOK, jobmanager_alloc_cb
<1> QED BY <1>1, <1>2, <1>3, UndisturbedInv DEF IInv, TypeOK

\* The resource module's cancels keep its tables well typed.
LEMMA RemoveTypes ==
    ASSUME NEW tab \in [Job -> RJobState], NEW j \in Job, NEW fails \in BOOLEAN, NEW full
    PROVE  /\ cancel_request_cb(tab, j, fails) \in [Job -> RJobState]
           /\ partial_cancel_request_cb(tab, j, fails, full) \in [Job -> RJobState]
  BY DEF cancel_request_cb, partial_cancel_request_cb, run_remove, RJobState

\* jobmanager_free_cb keeps the invariant.
LEMMA FreeStep ==
    ASSUME IInv, NEW j \in Job, NEW final \in BOOLEAN, jobmanager_free_cb(j, final)
    PROVE  IInv'
<1>0. QInv(q) /\ TypeOK
  BY DEF IInv
<1>1. UNCHANGED <<pls, est, reqs, resps>>
  BY DEF jobmanager_free_cb
<1>2. jm' \in [Job -> {"idle", "waiting", "alloced", "gone"}]
  BY <1>0 DEF TypeOK, jobmanager_free_cb
<1>3. QInv(q') /\ Undisturbed(q, q') /\ rjobs' \in [Job -> RJobState]
  <2>1. CASE UNCHANGED <<q, rjobs>>
    BY <1>0, <2>1 DEF Undisturbed, TypeOK
  <2>2. CASE \E fails \in {FALSE, RemoveMayFail}, full \in {final, TRUE} :
                LET held == rjobs[j] \in {"ALLOCATED", "ALLOC_ERROR"}
                IN  /\ q' = remove(q, j, final, ~(held /\ fails), held /\ full)
                    /\ rjobs' = IF final
                                THEN cancel_request_cb(rjobs, j, fails)
                                ELSE partial_cancel_request_cb(rjobs, j, fails, full)
    <3> DEFINE held == rjobs[j] \in {"ALLOCATED", "ALLOC_ERROR"}
    <3>1. PICK fails \in {FALSE, RemoveMayFail}, full \in {final, TRUE} :
                    /\ q' = remove(q, j, final, ~(held /\ fails), held /\ full)
                    /\ rjobs' = IF final
                                THEN cancel_request_cb(rjobs, j, fails)
                                ELSE partial_cancel_request_cb(rjobs, j, fails, full)
      BY <2>2
    <3>2. QInv(q') /\ Undisturbed(q, q')
      <4> HIDE DEF held
      <4> DEFINE ok == ~(held /\ fails)
                 gone == held /\ full
      <4>1. q' = remove(q, j, final, ok, gone)
        BY <3>1
      <4> HIDE DEF ok, gone
      <4> QED BY <1>0, <4>1, RemoveInv
    <3>3. fails \in BOOLEAN
      BY RemoveAssumption
    <3>4. rjobs' \in [Job -> RJobState]
      BY <1>0, <3>1, <3>3, RemoveTypes DEF TypeOK
    <3> QED BY <3>2, <3>4
  <2> QED BY <2>1, <2>2 DEF jobmanager_free_cb
<1> QED BY <1>0, <1>1, <1>2, <1>3, UndisturbedInv DEF TypeOK

\* jobmanager_cancel_cb keeps the invariant.
LEMMA CancelStep ==
    ASSUME IInv, NEW j \in Job, jobmanager_cancel_cb(j)
    PROVE  IInv'
<1>0. QInv(q) /\ TypeOK
  BY DEF IInv
<1>1. QInv(q') /\ Undisturbed(q, q')
  BY <1>0, RemovePendingInv DEF jobmanager_cancel_cb
<1>2. UNCHANGED <<pls, jm, est, rjobs, reqs, resps>>
  BY DEF jobmanager_cancel_cb, resource
<1> QED BY <1>0, <1>1, <1>2, UndisturbedInv DEF TypeOK

\* jobmanager_prioritize_cb keeps the invariant.
LEMMA PrioritizeStep ==
    ASSUME IInv, NEW j \in Job, NEW p \in Priority, jobmanager_prioritize_cb(j, p)
    PROVE  IInv'
<1>0. QInv(q) /\ TypeOK
  BY DEF IInv
<1>1. QInv(q') /\ Undisturbed(q, q')
  BY <1>0, PriorityType, ReprioritizeInv DEF jobmanager_prioritize_cb
<1>2. UNCHANGED <<pls, jm, est, rjobs, reqs, resps>>
  BY DEF jobmanager_prioritize_cb, resource
<1> QED BY <1>0, <1>1, <1>2, UndisturbedInv DEF TypeOK

\* update_on_resource_response keeps the invariant.
LEMMA ResourceStep ==
    ASSUME IInv, update_on_resource_response
    PROVE  IInv'
<1>0. QInv(q) /\ TypeOK
  BY DEF IInv
<1>1. QInv(q') /\ Undisturbed(q, q')
  BY <1>0, ResourceChangedInv DEF update_on_resource_response
<1>2. UNCHANGED <<pls, jm, est, rjobs, reqs, resps>>
  BY DEF update_on_resource_response, resource
<1> QED BY <1>0, <1>1, <1>2, UndisturbedInv DEF TypeOK

\* prep_watcher_cb keeps the invariant.
LEMMA PrepStep ==
    ASSUME IInv, prep_watcher_cb
    PROVE  IInv'
<1>0. QInv(q) /\ TypeOK
  BY DEF IInv
<1>1. UNCHANGED <<q, jm, est, rjobs, reqs, resps>>
  BY DEF prep_watcher_cb, resource
<1>2. QInv(q') /\ Undisturbed(q, q')
  BY <1>0, <1>1 DEF Undisturbed
<1>3. pls' \in Phase
  <2>1. q.schedulable \in BOOLEAN /\ q.scheduled \in BOOLEAN /\ q.dirty \in BOOLEAN
    BY <1>0, Fields DEF QInv
  <2> QED BY <2>1 DEF prep_watcher_cb, Phase
<1> QED BY <1>0, <1>1, <1>2, <1>3, UndisturbedInv DEF TypeOK

-----------------------------------------------------------------------------
\* Posting the answers leaves the loop alone.
LEMMA PostStep ==
    ASSUME TypeOK, NEW r, QInv(r), post_sched_loop(r)
    PROVE  /\ QInv(q') /\ Undisturbed(r, q')
           /\ jm' \in [Job -> {"idle", "waiting", "alloced", "gone"}]
           /\ est' \in [Job -> Nat]
<1> DEFINE changed == {j \in IdsOf(WithinDepth(r.pending)) : r.sched[j].at # r.sched[j].oldAt}
           T == [j \in Job |-> IF j \in r.canceled THEN "NONE" ELSE r.state[j]]
           D == [j \in Job |-> IF j \in changed
                               THEN [r.sched[j] EXCEPT !.oldAt = r.sched[j].at]
                               ELSE r.sched[j]]
<1>0. r \in QueueState /\ Partitioned(r) /\ Stamped(r) /\ Cursor(r) /\ Settled(r)
  BY DEF QInv
<1>1. q' = [r EXCEPT !.alloced = {}, !.rejected = {}, !.canceled = {},
                     !.state = T, !.sched = D, !.scheduled = FALSE, !.dirty = FALSE]
  BY DEF post_sched_loop
<1>2. \A j \in Job : r.sched[j] \in Schedule /\ r.sched[j].at \in Nat
  BY <1>0, Fields DEF Schedule
<1>3. D \in [Job -> Schedule]
  <2> HIDE DEF changed
  <2>1. \A j \in Job : [r.sched[j] EXCEPT !.oldAt = r.sched[j].at] \in Schedule
    BY <1>2 DEF Schedule
  <2> QED BY <1>2, <2>1
<1>4. T \in [Job -> JobState]
  BY <1>0, Fields DEF JobState
<1>5. \A j \in Job : T[j] = "PENDING" <=> r.state[j] = "PENDING"
  BY <1>0 DEF Settled
<1>6. jm' \in [Job -> {"idle", "waiting", "alloced", "gone"}]
  BY DEF post_sched_loop, TypeOK
<1>7. est' \in [Job -> Nat]
  <2>1. est' = [j \in Job |-> IF j \in r.alloced \cup r.rejected \cup r.canceled THEN 0
                              ELSE IF j \in changed THEN r.sched[j].at
                              ELSE est[j]]
    BY DEF post_sched_loop
  <2> HIDE DEF changed
  <2> QED BY <1>2, <2>1 DEF TypeOK
<1> HIDE DEF changed, T, D
<1>8. q' \in QueueState
  BY <1>0, <1>1, <1>3, <1>4, ZenonT(60) DEF QueueState
<1>9. /\ q'.state = T /\ q'.prio = r.prio /\ q'.ts = r.ts /\ q'.pqCnt = r.pqCnt
      /\ q'.pending = r.pending /\ q'.blocked = r.blocked
      /\ q'.provisional = r.provisional /\ q'.iter = r.iter /\ q'.active = r.active
      /\ q'.canceled = {}
  BY <1>0, <1>1 DEF QueueState
<1>10. \A j : get_key(q', j) = get_key(r, j)
  BY <1>9 DEF get_key
<1>11. Partitioned(q')
  <2>1. \A e \in r.pending \cup r.blocked \cup r.provisional : e.id \in Job
    BY KeysDistinct
  <2> QED BY <1>0, <1>5, <1>9, <1>10, <2>1 DEF Partitioned
<1>12. Stamped(q') /\ Settled(q')
  BY <1>0, <1>5, <1>9 DEF Stamped, Settled
<1>13. Cursor(q')
  BY <1>0, <1>9, <1>10 DEF Cursor
<1>14. Undisturbed(r, q')
  BY <1>9 DEF Undisturbed
<1> QED BY <1>6, <1>7, <1>8, <1>11, <1>12, <1>13, <1>14 DEF QInv

\* check_watcher_cb keeps the invariant: a loop it starts sends the one request.
LEMMA CheckStep ==
    ASSUME IInv, check_watcher_cb
    PROVE  IInv'
<1>0. QInv(q) /\ TypeOK /\ Channels
  BY DEF IInv
<1>1. pls' \in Phase /\ UNCHANGED resps
  BY DEF check_watcher_cb, AwaitPrep, Phase
<1>2. CASE ~pls.sched /\ ~pls.post
  <2>1. UNCHANGED <<q, jm, est, rjobs, reqs>>
    BY <1>2 DEF check_watcher_cb
  <2> QED BY <1>0, <1>1, <2>1, UndisturbedInv DEF TypeOK, Undisturbed
<1>3. CASE ~pls.sched /\ pls.post
  <2>1. post_sched_loop(q) /\ UNCHANGED <<rjobs, reqs>>
    BY <1>3 DEF check_watcher_cb
  <2> QED BY <1>0, <1>1, <2>1, PostStep, UndisturbedInv DEF TypeOK
<1>4. CASE pls.sched
  <2>1. PICK failed \in IF RemoveMayFail THEN SUBSET q.reserved ELSE {{}} :
                LET old == IF q.active THEN {} ELSE q.reserved
                    ok  == \A j \in old : Removable(rjobs, j) /\ j \notin failed
                    r   == run_sched_loop(ok)
                IN  /\ rjobs' = [j \in Job |->
                                    IF j \in old
                                    THEN cancel_request_cb(rjobs, j, j \in failed)[j]
                                    ELSE rjobs[j]]
                    /\ reqs' = reqs \o r.send
                    /\ \/ ok /\ post_sched_loop(r.q)
                       \/ ~ok /\ q' = r.q /\ UNCHANGED <<jm, est>>
    BY <1>4 DEF check_watcher_cb
  <2> DEFINE old == IF q.active THEN {} ELSE q.reserved
             ok  == \A j \in old : Removable(rjobs, j) /\ j \notin failed
             r   == run_sched_loop(ok)
  <2>2. /\ rjobs' = [j \in Job |-> IF j \in old
                                   THEN cancel_request_cb(rjobs, j, j \in failed)[j]
                                   ELSE rjobs[j]]
        /\ reqs' = reqs \o r.send
        /\ \/ ok /\ post_sched_loop(r.q)
           \/ ~ok /\ q' = r.q /\ UNCHANGED <<jm, est>>
    BY <2>1
  <2> HIDE DEF ok
  <2>3. rjobs' \in [Job -> RJobState]
    <3>1. \A j \in Job : cancel_request_cb(rjobs, j, j \in failed)[j] \in RJobState
      <4> TAKE j \in Job
      <4> DEFINE fails == j \in failed
      <4>1. fails \in BOOLEAN
        OBVIOUS
      <4> HIDE DEF fails
      <4>2. cancel_request_cb(rjobs, j, fails) \in [Job -> RJobState]
        BY <1>0, <4>1, RemoveTypes DEF TypeOK
      <4>3. cancel_request_cb(rjobs, j, fails)[j] \in RJobState
        BY <4>2
      <4> QED BY <4>3 DEF fails
    <3> HIDE DEF old
    <3> QED BY <1>0, <2>2, <3>1 DEF TypeOK
  <2>4. /\ QInv(r.q)
        /\ q.active => r.q = q /\ r.send = << >>
        /\ ~q.active /\ Policy # "fcfs" => Driven(r)
        /\ ~q.active /\ Policy = "fcfs" =>
              \/ r.send = << >> /\ ~r.q.active
              \/ \E J \in Seq(Job) : /\ r.send = << [jobs |-> J, reserve |-> FALSE] >>
                                     /\ Len(J) <= Cardinality(r.q.pending)
                                     /\ r.q.active
    <3>1. CASE Policy = "fcfs"
      BY <1>0, <3>1, FcfsRunInv DEF run_sched_loop
    <3>2. CASE Policy # "fcfs"
      <4>1. r = bf_run_sched_loop(q, ok)
        BY <3>2 DEF run_sched_loop
      <4> HIDE DEF r
      <4>2. IF q.active THEN r.q = q /\ r.send = << >> ELSE Driven(r)
        BY <1>0, <4>1, BackfillRunInv
      <4> QED BY <1>0, <3>2, <4>2 DEF Driven
    <3> QED BY <3>1, <3>2
  <2> HIDE DEF r, old
  <2>5. /\ QInv(q') /\ Undisturbed(r.q, q')
        /\ jm' \in [Job -> {"idle", "waiting", "alloced", "gone"}]
        /\ est' \in [Job -> Nat]
    <3>1. CASE post_sched_loop(r.q)
      BY <1>0, <2>4, <3>1, PostStep
    <3>2. CASE q' = r.q /\ UNCHANGED <<jm, est>>
      BY <1>0, <2>4, <3>2 DEF Undisturbed, TypeOK
    <3> QED BY <2>2, <3>1, <3>2
  <2>6. CASE q.active
    <3>1. r.q = q /\ reqs' = reqs
      BY <1>0, <2>2, <2>4, <2>6 DEF TypeOK
    <3> QED BY <1>1, <2>3, <2>5, <3>1, UndisturbedInv
  <2>7. CASE ~q.active /\ ~r.q.active
    <3>1. reqs = << >> /\ r.send = << >>
      BY <1>0, <2>4, <2>7 DEF Channels, Driven
    <3>2. reqs' = reqs
      BY <2>2, <3>1
    <3>3. q.active \in BOOLEAN /\ r.q.active \in BOOLEAN
      BY <1>0, <2>4, Fields DEF QInv
    <3>4. Undisturbed(q, q')
      BY <2>5, <2>7, <3>3 DEF Undisturbed
    <3> QED BY <1>1, <2>3, <2>5, <3>2, <3>4, UndisturbedInv
  <2>8. CASE ~q.active /\ r.q.active
    <3>1. reqs = << >>
      BY <1>0, <2>8 DEF Channels
    <3>2. q'.active /\ q'.iter = r.q.iter /\ q'.pending = r.q.pending
      BY <2>5, <2>8 DEF Undisturbed
    <3>3. CASE Policy = "fcfs"
      <4>1. PICK J \in Seq(Job) : /\ r.send = << [jobs |-> J, reserve |-> FALSE] >>
                                  /\ Len(J) <= Cardinality(r.q.pending)
        BY <2>4, <2>8, <3>3
      <4>2. reqs' = << [jobs |-> J, reserve |-> FALSE] >>
        BY <2>2, <3>1, <4>1
      <4>3. resps' = << >>
        BY <1>0, <1>1, <2>8, <3>3 DEF Channels, FcfsChannels
      <4>4. Channels'
        BY <3>2, <3>3, <4>1, <4>2, <4>3 DEF Channels, FcfsChannels
      <4>5. reqs' \in Seq([jobs : Seq(Job), reserve : BOOLEAN])
        BY <4>2
      <4>6. TypeOK'
        BY <1>0, <1>1, <2>3, <2>5, <4>5 DEF TypeOK, QInv
      <4> QED BY <2>5, <4>4, <4>6 DEF IInv
    <3>4. CASE Policy # "fcfs"
      <4>1. PICK b \in BOOLEAN : /\ r.send = << [jobs |-> <<r.q.iter>>, reserve |-> b] >>
                                 /\ r.q.iter # Nil
        BY <2>4, <2>8, <3>4 DEF Driven
      <4>2. reqs' = << [jobs |-> <<q'.iter>>, reserve |-> b] >>
        BY <2>2, <3>1, <3>2, <4>1
      <4>3. \A i \in DOMAIN resps' : resps'[i] = EndOfStream
        BY <1>0, <1>1, <2>8, <3>4 DEF Channels, BackfillChannels
      <4>4. Channels'
        BY <3>2, <3>4, <4>1, <4>2, <4>3 DEF Channels, BackfillChannels
      <4>5. q'.iter \in Job
        BY <2>5, <3>2, <4>1, Fields DEF QInv
      <4>6. reqs' \in Seq([jobs : Seq(Job), reserve : BOOLEAN])
        BY <4>2, <4>5
      <4>7. TypeOK'
        BY <1>0, <1>1, <2>3, <2>5, <4>6 DEF TypeOK, QInv
      <4> QED BY <2>5, <4>4, <4>7 DEF IInv
    <3> QED BY <3>3, <3>4
  <2> QED BY <2>6, <2>7, <2>8
<1> QED BY <1>0, <1>2, <1>3, <1>4 DEF TypeOK, Phase

-----------------------------------------------------------------------------
\* Facts about sequences over any set.
LEMMA HeadTail ==
    ASSUME NEW S, NEW s \in Seq(S), s # << >>
    PROVE  /\ Len(s) \in Nat /\ Len(s) >= 1 /\ DOMAIN s = 1..Len(s)
           /\ Head(s) = s[1] /\ Head(s) \in S
           /\ Tail(s) \in Seq(S) /\ Len(Tail(s)) = Len(s) - 1
           /\ DOMAIN Tail(s) = 1..(Len(s) - 1)
           /\ \A i \in 1..(Len(s) - 1) : Tail(s)[i] = s[i + 1]
  OBVIOUS

\* A sequence without elements.
LEMMA NoElements ==
    ASSUME NEW S, NEW s \in Seq(S), Len(s) = 0
    PROVE  s = << >>
  OBVIOUS

\* Appending one element.
LEMMA AppendSeq ==
    ASSUME NEW S, NEW s \in Seq(S), NEW x \in S
    PROVE  /\ s \o <<x>> = Append(s, x)
           /\ Append(s, x) \in Seq(S) /\ Append(s, x) # << >>
           /\ Len(Append(s, x)) = Len(s) + 1
           /\ DOMAIN Append(s, x) = 1..(Len(s) + 1)
           /\ Append(s, x)[Len(s) + 1] = x
           /\ \A i \in 1..Len(s) : Append(s, x)[i] = s[i]
  OBVIOUS

\* Concatenation.
LEMMA ConcatSeq ==
    ASSUME NEW S, NEW s \in Seq(S), NEW t \in Seq(S)
    PROVE  /\ s \o t \in Seq(S) /\ Len(s \o t) = Len(s) + Len(t)
           /\ Len(s) \in Nat /\ Len(t) \in Nat
           /\ DOMAIN s = 1..Len(s) /\ DOMAIN t = 1..Len(t)
           /\ \A i \in 1..Len(s) : (s \o t)[i] = s[i]
           /\ \A i \in 1..Len(t) : (s \o t)[Len(s) + i] = t[i]
  OBVIOUS

\* Appending a sequence and one more element.
LEMMA ConcatAppend ==
    ASSUME NEW S, NEW s \in Seq(S), NEW t \in Seq(S), NEW x \in S
    PROVE  LET u == s \o t \o <<x>>
           IN  /\ u \in Seq(S) /\ u # << >> /\ Len(u) = Len(s) + Len(t) + 1
               /\ Len(s) \in Nat /\ Len(t) \in Nat /\ DOMAIN u = 1..(Len(s) + Len(t) + 1)
               /\ \A i \in 1..Len(s) : u[i] = s[i]
               /\ \A i \in 1..Len(t) : u[Len(s) + i] = t[i]
               /\ u[Len(s) + Len(t) + 1] = x
<1> DEFINE v == s \o t
           u == v \o <<x>>
<1>1. /\ v \in Seq(S) /\ Len(v) = Len(s) + Len(t) /\ Len(s) \in Nat /\ Len(t) \in Nat
      /\ \A i \in 1..Len(s) : v[i] = s[i]
      /\ \A i \in 1..Len(t) : v[Len(s) + i] = t[i]
  BY ConcatSeq
<1> HIDE DEF v
<1>2. v \in Seq(S) /\ Len(v) \in Nat
  BY <1>1
<1>3. /\ u \in Seq(S) /\ u # << >> /\ Len(u) = Len(v) + 1 /\ DOMAIN u = 1..(Len(v) + 1)
      /\ u[Len(v) + 1] = x /\ \A i \in 1..Len(v) : u[i] = v[i]
  BY <1>2
<1> HIDE DEF u
<1>4. Len(v) + 1 = Len(s) + Len(t) + 1
  BY <1>1
<1>5. \A i \in 1..Len(s) : i \in 1..Len(v)
  BY <1>1
<1>6. \A i \in 1..Len(t) : Len(s) + i \in 1..Len(v)
  BY <1>1
<1>7. /\ u \in Seq(S) /\ u # << >> /\ Len(u) = Len(s) + Len(t) + 1
      /\ Len(s) \in Nat /\ Len(t) \in Nat /\ DOMAIN u = 1..(Len(s) + Len(t) + 1)
      /\ \A i \in 1..Len(s) : u[i] = s[i]
      /\ \A i \in 1..Len(t) : u[Len(s) + i] = t[i]
      /\ u[Len(s) + Len(t) + 1] = x
  BY <1>1, <1>3, <1>4, <1>5, <1>6
<1> QED BY <1>7 DEF u, v

\* The two kinds of responses.
LEMMA MessageTypes ==
    ASSUME NEW m \in Success \cup Failure
    PROVE  /\ m.kind \in {"ok", "err"}
           /\ m.kind = "ok" => m.job \in Job /\ m.at \in Nat /\ m # EndOfStream
                               /\ m.status \in {"ALLOCATED", "RESERVED"}
           /\ m.kind = "err" => m = [kind |-> "err", err |-> m.err]
  BY DEF Success, Failure, EndOfStream

\* What the resource module answers to a request: a success for each of its first
\* jobs, none of which it knew, with a reservation only where one was asked for;
\* then the end of the stream.  The tables say what the successes say.
Answers(req, oks, e) ==
    /\ Len(oks) <= Len(req.jobs)
    /\ \A i \in 1..Len(oks) :
          /\ oks[i].kind = "ok" /\ oks[i].job = req.jobs[i] /\ req.jobs[i] \in Job
          /\ oks[i].status \in {"ALLOCATED", "RESERVED"}
          /\ oks[i].status = "RESERVED" => req.reserve
          /\ rjobs[req.jobs[i]] = "NONE"
    /\ e.kind = "err" /\ (e = EndOfStream <=> Len(oks) = Len(req.jobs))
    /\ e.err = "ENODATA" <=> e = EndOfStream
    /\ \A j \in Job :
          IF \E i \in 1..Len(oks) : req.jobs[i] = j
          THEN \E i \in 1..Len(oks) : oks[i].job = j /\ rjobs'[j] = oks[i].status
          ELSE rjobs'[j] = rjobs[j]

\* match_multi_request_cb answers its request.
LEMMA ServiceAnswer ==
    ASSUME TypeOK, MatchService
    PROVE  /\ reqs # << >> /\ reqs' = Tail(reqs) /\ UNCHANGED <<q, pls, jm, est>>
           /\ rjobs' \in [Job -> RJobState]
           /\ Head(reqs).jobs \in Seq(Job) /\ Head(reqs).reserve \in BOOLEAN
           /\ \E oks \in Seq(Success \cup Failure), e \in Failure :
                 resps' = resps \o oks \o <<e>> /\ Answers(Head(reqs), oks, e)
<1>1. /\ reqs # << >> /\ reqs' = Tail(reqs) /\ UNCHANGED <<q, pls, jm, est>>
  BY DEF MatchService, match_multi_request_cb
<1> DEFINE req == Head(reqs)
           len == Len(req.jobs)
<1>2. req \in [jobs : Seq(Job), reserve : BOOLEAN]
  BY <1>1, HeadTail DEF TypeOK
<1>3. req.jobs \in Seq(Job) /\ req.reserve \in BOOLEAN /\ len \in Nat
  BY <1>2
<1>4. PICK n \in 0..len :
      \E oks \in [1..n -> UNION {MatchResult(req.jobs[i], req.reserve) : i \in 1..n}],
         err \in {"EBUSY", "ENODEV", "EINVAL", "ENODATA"} :
              /\ \A i \in 1..n : /\ oks[i] \in MatchResult(req.jobs[i], req.reserve)
                                 /\ ~is_existent_jobid(req.jobs[i])
              /\ (err = "ENODATA") <=> (n = len)
              /\ n < len /\ is_existent_jobid(req.jobs[n + 1]) => err = "EINVAL"
              /\ resps' = resps \o oks \o << [kind |-> "err", err |-> err] >>
              /\ rjobs' = [j \in Job |->
                            IF \E i \in 1..n : req.jobs[i] = j
                            THEN (CHOOSE s \in {oks[i] : i \in 1..n} : s.job = j).status
                            ELSE rjobs[j]]
  BY DEF MatchService, match_multi_request_cb
<1>5. PICK oks \in [1..n -> UNION {MatchResult(req.jobs[i], req.reserve) : i \in 1..n}],
           err \in {"EBUSY", "ENODEV", "EINVAL", "ENODATA"} :
              /\ \A i \in 1..n : /\ oks[i] \in MatchResult(req.jobs[i], req.reserve)
                                 /\ ~is_existent_jobid(req.jobs[i])
              /\ (err = "ENODATA") <=> (n = len)
              /\ n < len /\ is_existent_jobid(req.jobs[n + 1]) => err = "EINVAL"
              /\ resps' = resps \o oks \o << [kind |-> "err", err |-> err] >>
              /\ rjobs' = [j \in Job |->
                            IF \E i \in 1..n : req.jobs[i] = j
                            THEN (CHOOSE s \in {oks[i] : i \in 1..n} : s.job = j).status
                            ELSE rjobs[j]]
  BY <1>4
<1> DEFINE e == [kind |-> "err", err |-> err]
<1> HIDE DEF req, len
<1>6. n \in Nat /\ n <= len
  BY <1>3
<1>7. ASSUME NEW i \in 1..n
      PROVE  /\ oks[i] \in Success /\ oks[i].job = req.jobs[i] /\ oks[i].kind = "ok"
             /\ oks[i].status \in {"ALLOCATED", "RESERVED"} /\ req.jobs[i] \in Job
             /\ oks[i].status = "RESERVED" => req.reserve
  <2>1. req.jobs[i] \in Job
    BY <1>3, <1>6 DEF len
  <2>2. oks[i] \in MatchResult(req.jobs[i], req.reserve)
    BY <1>5
  <2>3. CASE oks[i] = [kind |-> "ok", job |-> req.jobs[i], status |-> "ALLOCATED", at |-> 0]
    BY <2>1, <2>3 DEF Success
  <2>4. CASE req.reserve /\ \E t \in StartTime :
                oks[i] = [kind |-> "ok", job |-> req.jobs[i], status |-> "RESERVED", at |-> t]
    BY <2>1, <2>4, BaseAssumption DEF Success
  <2> QED BY <2>2, <2>3, <2>4 DEF MatchResult
<1>8. e \in Failure
  BY DEF Failure
<1>9. oks \in Seq(Success \cup Failure) /\ Len(oks) = n
  <2> DEFINE M == Success \cup Failure
  <2>1. \A i \in 1..n : oks[i] \in M
    BY <1>7
  <2>2. oks = [i \in 1..n |-> oks[i]]
    BY <1>5
  <2> HIDE DEF M
  <2>3. oks \in [1..n -> M]
    BY <2>1, <2>2
  <2>4. oks \in Seq(M) /\ Len(oks) = n
    BY <1>6, <2>3
  <2> QED BY <2>4 DEF M
<1>10. resps' = resps \o oks \o <<e>>
  BY <1>5
<1> HIDE DEF e
<1> HIDE DEF e
<1>11. \A i \in 1..n : rjobs[req.jobs[i]] = "NONE"
  BY <1>5 DEF is_existent_jobid
<1>12. /\ e.kind = "err" /\ (e = EndOfStream <=> n = len) /\ (e.err = "ENODATA" <=> e = EndOfStream)
  BY <1>5 DEF e, EndOfStream
<1> DEFINE C(j) == (CHOOSE s \in {oks[i] : i \in 1..n} : s.job = j).status
           A(j) == \E i \in 1..n : req.jobs[i] = j
<1>13. rjobs' = [j \in Job |-> IF A(j) THEN C(j) ELSE rjobs[j]]
  BY <1>5
<1>14. ASSUME NEW j \in Job, A(j)
       PROVE  \E i \in 1..n : oks[i].job = j /\ C(j) = oks[i].status
  <2> DEFINE c == CHOOSE s \in {oks[i] : i \in 1..n} : s.job = j
  <2>1. \E s \in {oks[i] : i \in 1..n} : s.job = j
    BY <1>7, <1>14
  <2>2. c \in {oks[i] : i \in 1..n} /\ c.job = j
    BY <2>1
  <2> QED BY <2>2
<1> HIDE DEF C
<1>15. rjobs' \in [Job -> RJobState]
  <2>1. \A j \in Job : A(j) => C(j) \in RJobState
    BY <1>7, <1>14 DEF RJobState
  <2> HIDE DEF A
  <2> QED BY <1>13, <2>1 DEF TypeOK
<1>16. \A j \in Job : IF A(j) THEN \E i \in 1..n : oks[i].job = j /\ rjobs'[j] = oks[i].status
                            ELSE rjobs'[j] = rjobs[j]
  BY <1>13, <1>14
<1>17. Answers(req, oks, e)
  BY <1>6, <1>7, <1>9, <1>11, <1>12, <1>16 DEF Answers, len
<1> QED BY <1>1, <1>3, <1>8, <1>9, <1>10, <1>15, <1>17 DEF req

\* The resource module's match_multi_request_cb keeps the invariant.
LEMMA ServiceStep ==
    ASSUME IInv, MatchService
    PROVE  IInv'
<1>0. QInv(q) /\ TypeOK /\ Channels
  BY DEF IInv
<1> DEFINE req == Head(reqs)
           len == Len(req.jobs)
           M == Success \cup Failure
<1>1. /\ reqs # << >> /\ reqs' = Tail(reqs) /\ UNCHANGED <<q, pls, jm, est>>
      /\ rjobs' \in [Job -> RJobState] /\ req.jobs \in Seq(Job)
  BY <1>0, ServiceAnswer
<1>2. PICK oks \in Seq(M), e \in Failure : resps' = resps \o oks \o <<e>> /\ Answers(req, oks, e)
  BY <1>0, ServiceAnswer
<1> DEFINE n == Len(oks)
<1>3. resps \in Seq(M) /\ e \in M
  BY <1>0 DEF TypeOK
<1> HIDE DEF M, req
<1>4. /\ resps' \in Seq(M) /\ resps' # << >> /\ Len(resps') = Len(resps) + n + 1
      /\ Len(resps) \in Nat /\ n \in Nat /\ DOMAIN resps' = 1..(Len(resps) + n + 1)
      /\ \A i \in 1..Len(resps) : resps'[i] = resps[i]
      /\ \A i \in 1..n : resps'[Len(resps) + i] = oks[i]
      /\ resps'[Len(resps) + n + 1] = e
  BY <1>2, <1>3, ConcatAppend
<1> HIDE DEF n
<1>5. /\ n <= len /\ len \in Nat
      /\ \A i \in 1..n : oks[i].kind = "ok" /\ oks[i].job = req.jobs[i]
      /\ e.kind = "err" /\ (e = EndOfStream <=> n = len) /\ (e.err = "ENODATA" <=> e = EndOfStream)
  BY <1>1, <1>2 DEF Answers, n
<1>6. reqs' \in Seq([jobs : Seq(Job), reserve : BOOLEAN])
  <2> DEFINE R == [jobs : Seq(Job), reserve : BOOLEAN]
  <2>1. reqs \in Seq(R)
    BY <1>0 DEF TypeOK
  <2> HIDE DEF R
  <2>2. Tail(reqs) \in Seq(R)
    BY <1>1, <2>1
  <2> QED BY <1>1, <2>2 DEF R
<1>7. TypeOK'
  BY <1>0, <1>1, <1>4, <1>6 DEF TypeOK, M
<1>8. q.active
  BY <1>0, <1>1 DEF Channels
<1>9. CASE Policy = "fcfs"
  <2>1. resps = << >> /\ Len(reqs) = 1 /\ Len(reqs[1].jobs) <= Cardinality(q.pending)
    BY <1>0, <1>1, <1>8, <1>9 DEF Channels, FcfsChannels
  <2>2. reqs' = << >> /\ req = reqs[1]
    <3> DEFINE R == [jobs : Seq(Job), reserve : BOOLEAN]
    <3>1. reqs \in Seq(R)
      BY <1>0 DEF TypeOK
    <3> HIDE DEF R
    <3>2. Tail(reqs) = << >> /\ Head(reqs) = reqs[1]
      BY <1>1, <2>1, <3>1
    <3> QED BY <1>1, <3>2 DEF req
  <2>3. Len(resps) = 0
    BY <2>1
  <2>4. \A i \in DOMAIN resps' : resps'[i].kind = "err" <=> i = Len(resps')
    BY <1>4, <1>5, <2>3
  <2>5. Cardinality(q.pending) \in Nat
    BY <1>0, MapFinite, FS_CardinalityType
  <2>6. resps'[Len(resps')].err # "ENODATA" => Len(resps') <= Cardinality(q.pending)
    BY <1>4, <1>5, <2>1, <2>2, <2>3, <2>5
  <2>7. FcfsChannels'
    BY <1>1, <1>4, <1>8, <2>2, <2>4, <2>6 DEF FcfsChannels
  <2>8. Channels'
    BY <1>9, <2>2, <2>7 DEF Channels
  <2> QED BY <1>0, <1>1, <1>7, <2>8 DEF IInv
<1>10. CASE Policy # "fcfs"
  <2>0. BackfillChannels
    BY <1>0, <1>10 DEF Channels
  <2>1. PICK b \in BOOLEAN : reqs = << [jobs |-> <<q.iter>>, reserve |-> b] >>
    BY <1>1, <2>0 DEF BackfillChannels
  <2>2. reqs' = << >> /\ req.jobs = <<q.iter>> /\ len = 1
    BY <1>1, <2>1 DEF req
  <2>3. \A i \in 1..Len(resps) : resps[i] = EndOfStream
    BY <1>1, <1>3, <2>0 DEF BackfillChannels
  <2> DEFINE v == resps'[Len(resps) + 1]
  <2>4. \A i \in DOMAIN resps' : i # Len(resps) + 1 => resps'[i] = EndOfStream
    <3>1. n = 0 \/ n = 1
      BY <1>4, <1>5, <2>2
    <3>2. n = 1 => e = EndOfStream
      BY <1>5, <2>2
    <3> QED BY <1>4, <2>3, <3>1, <3>2
  <2>5. v.kind = "ok" => v.job = q.iter
    BY <1>4, <1>5, <2>2
  <2>6. q'.active /\ q'.iter = q.iter /\ q'.iter # Nil
    BY <1>1, <1>8, <2>0 DEF BackfillChannels
  <2>7. BackfillChannels'
    BY <2>2, <2>4, <2>5, <2>6 DEF BackfillChannels
  <2> QED BY <1>0, <1>1, <1>7, <1>10, <2>2, <2>6, <2>7 DEF IInv, Channels
<1> QED BY <1>9, <1>10

-----------------------------------------------------------------------------
\* A backfill method drives the loop when nothing but ends of streams is left.
LEMMA DrivenChannels ==
    ASSUME Policy # "fcfs", NEW n, Driven(n), q' = n.q, reqs' = n.send,
           \A i \in DOMAIN resps' : resps'[i] = EndOfStream
    PROVE  Channels' /\ reqs' \in Seq([jobs : Seq(Job), reserve : BOOLEAN])
<1>1. CASE n.send = << >> /\ ~n.q.active
  <2>1. BackfillChannels'
    BY <1>1 DEF BackfillChannels
  <2> QED BY <1>1, <2>1 DEF Channels
<1>2. CASE \E b \in BOOLEAN : /\ n.send = << [jobs |-> <<n.q.iter>>, reserve |-> b] >>
                              /\ n.q.active /\ n.q.iter # Nil
  <2>1. BackfillChannels'
    BY <1>2 DEF BackfillChannels
  <2>2. n.q.iter \in Job
    BY <1>2, Fields DEF Driven, QInv
  <2> QED BY <1>2, <2>1, <2>2 DEF Channels
<1> QED BY <1>1, <1>2 DEF Driven

\* What a backfill method sends is what an empty channel then holds.
LEMMA DrivenSend ==
    ASSUME NEW n, Driven(n)
    PROVE  << >> \o n.send = n.send
<1>1. CASE n.send = << >>
  <2>1. << >> \in Seq({}) /\ << >> \o << >> = << >>
    OBVIOUS
  <2> QED BY <1>1, <2>1
<1>2. CASE \E x : n.send = <<x>>
  <2>1. PICK x : n.send = <<x>>
    BY <1>2
  <2>2. << >> \o <<x>> = <<x>>
    OBVIOUS
  <2> QED BY <2>1, <2>2
<1> QED BY <1>1, <1>2 DEF Driven

\* What a response does under a backfill policy: the end of a stream nothing, and
\* a verdict, with nothing but ends of streams behind it, drives the loop.
LEMMA BackfillResponse ==
    ASSUME IInv, Policy # "fcfs", match_allocate_multi_cont
    PROVE  /\ resps # << >> /\ resps' = Tail(resps)
           /\ \/ resps[1] = EndOfStream /\ q' = q /\ reqs' = reqs
              \/ /\ resps[1] # EndOfStream /\ q.active /\ q.iter # Nil /\ reqs = << >>
                 /\ \A i \in DOMAIN resps : i # 1 => resps[i] = EndOfStream
                 /\ \A i \in DOMAIN resps' : resps'[i] = EndOfStream
                 /\ \/ /\ resps[1].kind = "ok" /\ resps[1].job = q.iter /\ resps[1].at \in Nat
                       /\ LET n == bf_handle_match_success(q, q.iter, resps[1].status, resps[1].at)
                          IN  Driven(n) /\ q' = n.q /\ reqs' = n.send
                    \/ /\ resps[1].kind = "err" /\ resps[1].err # "ENODATA"
                       /\ LET n == bf_handle_match_failure(q, resps[1].err)
                          IN  Driven(n) /\ q' = n.q /\ reqs' = n.send
<1>0. QInv(q) /\ TypeOK /\ BackfillChannels
  BY DEF IInv, Channels
<1> DEFINE m == Head(resps)
           R == [jobs : Seq(Job), reserve : BOOLEAN]
           M == Success \cup Failure
<1>1. resps # << >>
  BY DEF match_allocate_multi_cont
<1>2. resps \in Seq(M) /\ reqs \in Seq(R)
  BY <1>0 DEF TypeOK
<1> HIDE DEF M, R
<1>3. /\ Len(resps) \in Nat /\ Len(resps) >= 1 /\ DOMAIN resps = 1..Len(resps)
      /\ m = resps[1] /\ m \in M
      /\ DOMAIN Tail(resps) = 1..(Len(resps) - 1)
      /\ \A i \in 1..(Len(resps) - 1) : Tail(resps)[i] = resps[i + 1]
  BY <1>1, <1>2, HeadTail
<1>4. reqs \o << >> = reqs
  BY <1>2
<1>5. m.kind = "ok" \/ m.kind = "err"
  BY <1>3, MessageTypes DEF M
<1> HIDE DEF m
<1>6. CASE m = EndOfStream
  <2>1. m.kind = "err" /\ m.err = "ENODATA"
    BY <1>6 DEF EndOfStream
  <2>2. LET r == handle_match_failure(m)
        IN  q' = r.q /\ reqs' = reqs \o r.send /\ resps' = Tail(resps)
    BY <2>1 DEF match_allocate_multi_cont, m
  <2>3. handle_match_failure(m) = [q |-> q, send |-> << >>]
    BY <2>1 DEF handle_match_failure, bf_handle_match_failure
  <2> QED BY <1>1, <1>3, <1>4, <1>6, <2>2, <2>3
<1>7. CASE m # EndOfStream
  <2>1. /\ q.active /\ q.iter # Nil /\ reqs = << >>
        /\ m.kind = "ok" => m.job = q.iter
        /\ \A i \in DOMAIN resps : i # 1 => resps[i] = EndOfStream
        /\ \A i \in 1..(Len(resps) - 1) : Tail(resps)[i] = EndOfStream
    BY <1>0, <1>3, <1>7 DEF BackfillChannels
  <2>2. CASE m.kind = "ok"
    <3> DEFINE n == bf_handle_match_success(q, q.iter, m.status, m.at)
    <3>1. m.at \in Nat
      BY <1>3, <2>2, MessageTypes DEF M
    <3>2. Driven(n) /\ n.rc = TRUE
      BY <1>0, <2>1, <3>1, BackfillSuccessInv
    <3>3. handle_match_success(m) = n
      BY <2>1, <2>2 DEF handle_match_success
    <3> HIDE DEF n
    <3>4. q' = n.q /\ reqs' = reqs \o n.send /\ resps' = Tail(resps)
      BY <2>2, <3>2, <3>3 DEF match_allocate_multi_cont, m
    <3>5. reqs' = n.send
      BY <2>1, <3>2, <3>4, DrivenSend
    <3> QED BY <1>1, <1>3, <1>7, <2>1, <2>2, <3>1, <3>2, <3>4, <3>5 DEF n
  <2>3. CASE m.kind = "err"
    <3> DEFINE n == bf_handle_match_failure(q, m.err)
    <3>1. m.err # "ENODATA"
      BY <1>3, <1>7, <2>3, MessageTypes DEF M, EndOfStream
    <3>2. Driven(n)
      BY <1>0, <2>1, <3>1, BackfillFailureInv
    <3>3. handle_match_failure(m) = n
      BY DEF handle_match_failure
    <3> HIDE DEF n
    <3>4. q' = n.q /\ reqs' = reqs \o n.send /\ resps' = Tail(resps)
      BY <2>3, <3>3 DEF match_allocate_multi_cont, m
    <3>5. reqs' = n.send
      BY <2>1, <3>2, <3>4, DrivenSend
    <3> QED BY <1>1, <1>3, <1>7, <2>1, <2>3, <3>1, <3>2, <3>4, <3>5 DEF n
  <2> QED BY <1>5, <2>2, <2>3
<1> QED BY <1>6, <1>7

\* What a response does under fcfs: a success starts the iterator's job, and ends
\* the loop if it is about another job; the end of the stream ends the loop.
LEMMA FcfsResponse ==
    ASSUME IInv, Policy = "fcfs", match_allocate_multi_cont
    PROVE  /\ resps # << >> /\ q.active /\ reqs = << >> /\ reqs' = << >>
           /\ \/ /\ resps[1].kind = "ok" /\ resps[1].job = q.iter /\ q.iter # Nil
                 /\ q' = to_running(q, q.iter) /\ resps' = Tail(resps) /\ Len(resps) > 1
              \/ /\ resps[1].kind = "ok" /\ resps[1].job # q.iter
                 /\ q' = EndSchedLoop(q) /\ resps' = << >>
              \/ /\ resps[1].kind = "err" /\ resps' = << >>
                 /\ resps[1].err # "ENODATA" => q.iter # Nil
                 /\ q' = fcfs_handle_match_failure(q, resps[1].err)
<1>0. QInv(q) /\ TypeOK /\ FcfsChannels
  BY DEF IInv, Channels
<1> DEFINE m == Head(resps)
           R == [jobs : Seq(Job), reserve : BOOLEAN]
           M == Success \cup Failure
<1>1. resps # << >>
  BY DEF match_allocate_multi_cont
<1>2. resps \in Seq(M) /\ reqs \in Seq(R)
  BY <1>0 DEF TypeOK
<1> HIDE DEF M, R
<1>3. /\ Len(resps) \in Nat /\ Len(resps) >= 1 /\ DOMAIN resps = 1..Len(resps)
      /\ m = resps[1] /\ m \in M /\ Tail(resps) \in Seq(M)
      /\ Len(Tail(resps)) = Len(resps) - 1
  BY <1>1, <1>2, HeadTail
<1>4. /\ q.active /\ reqs = << >>
      /\ \A i \in DOMAIN resps : resps[i].kind = "err" <=> i = Len(resps)
      /\ resps[Len(resps)].err # "ENODATA" => Len(resps) <= Cardinality(q.pending)
  BY <1>0, <1>1 DEF FcfsChannels
<1>5. << >> \o << >> = << >>
  OBVIOUS
<1>6. m.kind = "ok" \/ m.kind = "err"
  BY <1>3, MessageTypes DEF M
<1> HIDE DEF m
<1>7. CASE m.kind = "ok"
  <2>1. Len(resps) > 1
    BY <1>3, <1>4, <1>7
  <2> DEFINE r == fcfs_handle_match_success(q, m.job)
  <2>2. /\ q' = IF r.rc \/ ~r.q.active THEN r.q ELSE EndSchedLoop(r.q)
        /\ reqs' = << >>
        /\ resps' = IF r.rc THEN Tail(resps) ELSE DropStream(resps)
    <3>1. handle_match_success(m) = [q |-> r.q, send |-> << >>, rc |-> r.rc]
      BY DEF handle_match_success
    <3> HIDE DEF r
    <3>2. LET x == handle_match_success(m)
          IN  /\ q' = IF x.rc \/ ~x.q.active THEN x.q ELSE EndSchedLoop(x.q)
              /\ reqs' = reqs \o x.send
              /\ resps' = IF x.rc THEN Tail(resps) ELSE DropStream(resps)
      BY <1>7 DEF match_allocate_multi_cont, m
    <3> QED BY <1>4, <1>5, <3>1, <3>2
  <2>3. CASE q.iter = m.job
    <3>1. q.iter # Nil
      BY <1>3, <1>7, <2>3, MessageTypes, BaseAssumption DEF M
    <3>2. r = [q |-> to_running(q, q.iter), rc |-> TRUE]
      BY <1>4, <2>3 DEF fcfs_handle_match_success
    <3> HIDE DEF r
    <3>3. q' = to_running(q, q.iter) /\ resps' = Tail(resps)
      BY <2>2, <3>2
    <3> QED BY <1>1, <1>3, <1>4, <1>7, <2>1, <2>2, <2>3, <3>1, <3>3
  <2>4. CASE q.iter # m.job
    <3>1. r = [q |-> q, rc |-> FALSE]
      BY <2>4 DEF fcfs_handle_match_success
    <3> HIDE DEF r
    <3>2. q' = EndSchedLoop(q) /\ resps' = DropStream(resps)
      BY <1>4, <2>2, <3>1
    <3>3. DropStream(resps) = << >>
      <4> DEFINE ends == {i \in DOMAIN resps : resps[i].kind = "err"}
                 last == CHOOSE i \in ends : \A k \in ends : i <= k
      <4>1. ends = {Len(resps)}
        BY <1>3, <1>4
      <4>2. last = Len(resps)
        BY <1>3, <4>1
      <4>3. SubSeq(resps, Len(resps) + 1, Len(resps)) = << >>
        BY <1>2, <1>3
      <4>4. DropStream(resps) = SubSeq(resps, last + 1, Len(resps))
        BY DEF DropStream
      <4> HIDE DEF last
      <4> QED BY <4>2, <4>3, <4>4
    <3> QED BY <1>1, <1>3, <1>4, <1>7, <2>2, <2>4, <3>2, <3>3
  <2> QED BY <2>3, <2>4
<1>8. CASE m.kind = "err"
  <2>1. Len(resps) = 1
    BY <1>3, <1>4, <1>8
  <2>2. Tail(resps) = << >>
    <3>1. Tail(resps) \in Seq(M) /\ Len(Tail(resps)) = 0
      BY <1>3, <2>1
    <3> QED BY <3>1, NoElements, Zenon
  <2>3. m.err # "ENODATA" => q.iter # Nil
    <3> SUFFICES ASSUME m.err # "ENODATA" PROVE q.iter # Nil
      OBVIOUS
    <3>1. /\ q.pending \subseteq Entry /\ IsFiniteSet(q.pending)
          /\ \A e, f \in q.pending : SameKey(e, f) => e = f
      BY <1>0, MapFinite
    <3>2. 1 <= Cardinality(q.pending)
      BY <1>3, <1>4, <2>1
    <3>3. q.pending # {}
      BY <3>2, FS_EmptySet
    <3>4. BeginOf(q.pending) \in {e.id : e \in q.pending}
      BY <3>1, <3>3, BeginExists
    <3>5. BeginOf(q.pending) \in Job
      BY <3>1, <3>4 DEF Entry
    <3>6. q.iter = BeginOf(q.pending)
      BY <1>0, <1>4 DEF QInv, Cursor
    <3> QED BY <3>5, <3>6, BaseAssumption
  <2> DEFINE r == fcfs_handle_match_failure(q, m.err)
  <2>4. handle_match_failure(m) = [q |-> r, send |-> << >>]
    BY DEF handle_match_failure
  <2> HIDE DEF r
  <2>5. LET x == handle_match_failure(m)
        IN  q' = x.q /\ reqs' = reqs \o x.send /\ resps' = Tail(resps)
    BY <1>8 DEF match_allocate_multi_cont, m
  <2>6. q' = r /\ reqs' = << >> /\ resps' = << >>
    BY <1>4, <1>5, <2>2, <2>4, <2>5
  <2> QED BY <1>1, <1>3, <1>4, <1>8, <2>3, <2>6 DEF r
<1> QED BY <1>6, <1>7, <1>8

\* match_allocate_multi_cont keeps the invariant.
LEMMA ContStep ==
    ASSUME IInv, match_allocate_multi_cont
    PROVE  IInv'
<1>0. QInv(q) /\ TypeOK /\ Channels /\ q \in QueueState
  BY DEF IInv, QInv
<1>1. resps # << >> /\ UNCHANGED <<pls, jm, est, rjobs>>
  BY DEF match_allocate_multi_cont
<1> DEFINE R == [jobs : Seq(Job), reserve : BOOLEAN]
           M == Success \cup Failure
<1>2. resps \in Seq(M) /\ reqs \in Seq(R) /\ << >> \in Seq(R) /\ << >> \in Seq(M)
  BY <1>0 DEF TypeOK
<1> HIDE DEF M, R
<1>3. /\ Len(resps) \in Nat /\ Len(resps) >= 1 /\ DOMAIN resps = 1..Len(resps)
      /\ Tail(resps) \in Seq(M) /\ Len(Tail(resps)) = Len(resps) - 1
      /\ DOMAIN Tail(resps) = 1..(Len(resps) - 1)
      /\ \A i \in 1..(Len(resps) - 1) : Tail(resps)[i] = resps[i + 1]
  BY <1>1, <1>2, HeadTail
<1>4. ASSUME QInv(q'), Channels', reqs' \in Seq(R), resps' \in Seq(M) PROVE IInv'
  <2>1. TypeOK'
    BY <1>0, <1>1, <1>4 DEF TypeOK, QInv, R, M
  <2> QED BY <1>4, <2>1 DEF IInv
<1>5. CASE Policy # "fcfs"
  <2>0. BackfillChannels /\ resps' = Tail(resps)
    BY <1>0, <1>5, BackfillResponse DEF Channels
  <2>1. CASE q' = q /\ reqs' = reqs
    <3>1. BackfillChannels'
      BY <1>3, <2>0, <2>1 DEF BackfillChannels
    <3>2. Channels'
      BY <1>0, <1>5, <2>1, <3>1 DEF Channels
    <3> QED BY <1>0, <1>2, <1>3, <1>4, <2>0, <2>1, <3>2
  <2>2. CASE \E n : /\ Driven(n) /\ q' = n.q /\ reqs' = n.send
                    /\ \A i \in DOMAIN resps' : resps'[i] = EndOfStream
    <3>1. Channels' /\ reqs' \in Seq(R)
      BY <1>5, <2>2, DrivenChannels DEF R
    <3> QED BY <1>3, <1>4, <2>0, <2>2, <3>1 DEF Driven
  <2> QED BY <1>5, <2>1, <2>2, BackfillResponse
<1>6. CASE Policy = "fcfs"
  <2>0. /\ q.active /\ reqs = << >> /\ reqs' = << >>
        /\ \A i \in DOMAIN resps : resps[i].kind = "err" <=> i = Len(resps)
        /\ resps[Len(resps)].err # "ENODATA" => Len(resps) <= Cardinality(q.pending)
    BY <1>0, <1>1, <1>6, FcfsResponse DEF Channels, FcfsChannels
  <2>1. IsFiniteSet(q.pending) /\ Cardinality(q.pending) \in Nat
    BY <1>0, MapFinite, FS_CardinalityType
  <2>2. CASE /\ q' = to_running(q, q.iter) /\ resps' = Tail(resps)
             /\ q.iter # Nil /\ Len(resps) > 1
    <3>1. /\ QInv(q') /\ q'.active
          /\ get_key(q, q.iter) \in q.pending
          /\ q'.pending = q.pending \ {get_key(q, q.iter)}
      BY <1>0, <2>0, <2>2, ToRunningInv
    <3>2. Cardinality(q'.pending) = Cardinality(q.pending) - 1
      BY <2>1, <3>1, FS_RemoveElement, ZenonT(60)
    <3>3. resps' \in Seq(M) /\ Len(resps') = Len(resps) - 1 /\ resps' # << >>
      <4>1. Len(Tail(resps)) # 0
        BY <1>3, <2>2
      <4>2. Len(<< >>) = 0
        OBVIOUS
      <4> QED BY <1>3, <2>2, <4>1, <4>2
    <3>4. \A i \in DOMAIN resps' : resps'[i].kind = "err" <=> i = Len(resps')
      BY <1>3, <2>0, <2>2, <3>3
    <3>5. resps'[Len(resps')] = resps[Len(resps)]
      BY <1>3, <2>2, <3>3
    <3>6. FcfsChannels'
      BY <1>3, <2>0, <2>1, <3>1, <3>2, <3>3, <3>4, <3>5 DEF FcfsChannels
    <3>7. Channels'
      BY <1>6, <2>0, <3>6 DEF Channels
    <3> QED BY <1>2, <1>4, <2>0, <3>1, <3>3, <3>7
  <2>3. CASE QInv(q') /\ ~q'.active /\ resps' = << >>
    <3>1. Channels'
      BY <1>6, <2>0, <2>3 DEF Channels, FcfsChannels
    <3> QED BY <1>2, <1>4, <2>0, <2>3, <3>1
  <2>4. CASE q' = EndSchedLoop(q) /\ resps' = << >>
    BY <1>0, <2>3, <2>4, EndInv
  <2>5. CASE /\ q' = fcfs_handle_match_failure(q, resps[1].err) /\ resps' = << >>
             /\ resps[1].err # "ENODATA" => q.iter # Nil
    BY <1>0, <2>0, <2>3, <2>5, FcfsFailureInv
  <2> QED BY <1>6, <2>2, <2>4, <2>5, FcfsResponse
<1> QED BY <1>5, <1>6

-----------------------------------------------------------------------------
\* Every step keeps the invariant.
LEMMA NextInv ==
    ASSUME IInv, [Next]_vars
    PROVE  IInv'
<1>1. CASE Next
  BY <1>1, AllocStep, FreeStep, CancelStep, PrioritizeStep, ResourceStep, ContStep,
     PrepStep, CheckStep, ServiceStep DEF Next
<1>2. CASE UNCHANGED vars
  BY <1>2 DEF vars, IInv, TypeOK, Channels, BackfillChannels, FcfsChannels
<1> QED BY <1>1, <1>2

\* The inductive invariant holds in every reachable state, for every policy,
\* set of jobs, queue depth and bound.
THEOREM Invariance == Spec => []IInv
<1>1. Init => IInv
  BY InitInv
<1>2. IInv /\ [Next]_vars => IInv'
  BY NextInv
<1> QED BY <1>1, <1>2, PTL DEF Spec

\* Every reachable state is well typed; in particular pack_jobs only ever sends
\* sequences of jobs and to_rejected is never applied to the end iterator.
THEOREM TypeCorrect == Spec => []TypeOK
<1>1. IInv => TypeOK
  BY DEF IInv
<1> QED BY <1>1, Invariance, PTL

\* A job is pending exactly when one of m_pending, m_blocked and
\* m_pending_provisional holds it, once and under its current key, whatever
\* requests were deferred, whenever loops ended.
THEOREM Partition == Spec => []PendingPartition
<1>1. IInv => PendingPartition
  BY DEF IInv, QInv, PendingPartition
<1> QED BY <1>1, Invariance, PTL

=============================================================================
