--------------------------- MODULE QmanagerTracking ---------------------------
(***************************************************************************)
(* What the queue manager tells the others - every alloc request is        *)
(* answered once (RequestTracked), the queue and the resource module agree *)
(* on who holds what (ResourceAgreement), a loop reserves no more than it  *)
(* may (ReservationBound) - and in which order it serves the jobs.         *)
(***************************************************************************)
EXTENDS QmanagerSteps

\* The jobs whose alloc request has not been answered.
Outstanding(r) ==
    {j \in Job : r.state[j] = "PENDING"} \cup r.alloced \cup r.rejected \cup r.canceled

\* The queues of answers hold jobs in the state the answer is about, and m_running
\* holds the running jobs.
Answered(r) ==
    /\ \A j \in r.alloced : r.state[j] = "ALLOC_RUNNING"
    /\ \A j \in r.rejected : r.state[j] = "REJECTED"
    /\ \A j \in r.canceled : r.state[j] = "CANCELED"
    /\ \A j \in Job : j \in r.running <=> r.state[j] \in {"RUNNING", "ALLOC_RUNNING"}

\* Queue r, the job manager's view v of each job and the estimates t agree: it
\* waits for the outstanding answers, estimates are shown for waiting jobs, and a
\* job that holds resources is running unless the queue has lost it.
Tracks(r, v, t) ==
    /\ Answered(r)
    /\ \A j \in Job : /\ v[j] = "waiting" <=> j \in Outstanding(r)
                      /\ t[j] # 0 => v[j] = "waiting"
                      /\ v[j] = "alloced" => r.state[j] \in {"NONE", "RUNNING", "ALLOC_RUNNING"}

\* Tracking survives cancellations.
LEMMA SettlesTracks ==
    ASSUME NEW r, NEW s \in QueueState, NEW v, NEW t,
           Tracks(r, v, t), Settles(r, s)
    PROVE  Tracks(s, v, t)
<1>0. r.alloced \subseteq Job /\ r.rejected \subseteq Job /\ s.canceled \subseteq Job
  BY Fields DEF Settles
<1>1. \A j \in Job : j \in Outstanding(s) <=> j \in Outstanding(r)
  BY DEF Settles, Outstanding
<1>2. \A j \in r.alloced : s.state[j] = "ALLOC_RUNNING"
  BY <1>0 DEF Settles, Tracks, Answered
<1>3. \A j \in r.rejected : s.state[j] = "REJECTED"
  BY <1>0 DEF Settles, Tracks, Answered
<1>4. \A j \in Job : j \in s.canceled => s.state[j] = "CANCELED"
  BY DEF Settles, Tracks, Answered
<1>5. \A j \in Job : j \in s.running <=> s.state[j] \in {"RUNNING", "ALLOC_RUNNING"}
  BY DEF Settles, Tracks, Answered
<1>6. \A j \in Job : v[j] = "alloced" => s.state[j] \in {"NONE", "RUNNING", "ALLOC_RUNNING"}
  BY DEF Settles, Tracks
<1> QED BY <1>0, <1>1, <1>2, <1>3, <1>4, <1>5, <1>6 DEF Settles, Tracks, Answered

\* Tracking survives a decision about the iterator's job, which was pending.
LEMMA DecidesTracks ==
    ASSUME NEW r, QInv(r), r.iter # Nil, NEW x, NEW v, NEW t, Tracks(r, v, t),
           Starts(r, x) \/ Rejects(r, x) \/ Reserves(r, x) \/ Passes(r, x)
    PROVE  Tracks(x, v, t)
<1>0. /\ r \in QueueState /\ r.state \in [Job -> JobState]
      /\ r.alloced \subseteq Job /\ r.rejected \subseteq Job /\ r.canceled \subseteq Job
  BY Fields DEF QInv
<1>1. r.iter \in Job /\ r.state[r.iter] = "PENDING"
  <2>1. get_key(r, r.iter) \in r.pending /\ r.iter \in Job
    BY <1>0, Fields DEF QInv, Cursor
  <2>2. get_key(r, r.iter).id = r.iter
    BY DEF get_key
  <2> QED BY <2>1, <2>2, KeysDistinct
<1>2. CASE Starts(r, x)
  <2>0. /\ x.state = [r.state EXCEPT ![r.iter] = "ALLOC_RUNNING"]
        /\ x.running = r.running \cup {r.iter} /\ x.alloced = r.alloced \cup {r.iter}
        /\ x.rejected = r.rejected /\ x.canceled = r.canceled
    BY <1>2 DEF Starts, Moves
  <2>1. Answered(x)
    BY <1>0, <1>1, <2>0 DEF Answered, Tracks
  <2>2. \A j \in Job : j \in Outstanding(x) <=> j \in Outstanding(r)
    BY <1>0, <1>1, <2>0 DEF Outstanding
  <2>3. \A j \in Job : v[j] = "alloced" => x.state[j] \in {"NONE", "RUNNING", "ALLOC_RUNNING"}
    BY <1>0, <1>1, <2>0 DEF Tracks
  <2> QED BY <2>1, <2>2, <2>3 DEF Tracks
<1>3. CASE Rejects(r, x)
  <2>0. /\ x.state = [r.state EXCEPT ![r.iter] = "REJECTED"]
        /\ x.rejected = r.rejected \cup {r.iter} /\ x.alloced = r.alloced
        /\ x.running = r.running /\ x.canceled = r.canceled
    BY <1>3 DEF Rejects, Moves
  <2>1. Answered(x)
    BY <1>0, <1>1, <2>0 DEF Answered, Tracks
  <2>2. \A j \in Job : j \in Outstanding(x) <=> j \in Outstanding(r)
    BY <1>0, <1>1, <2>0 DEF Outstanding
  <2>3. \A j \in Job : v[j] = "alloced" => x.state[j] \in {"NONE", "RUNNING", "ALLOC_RUNNING"}
    BY <1>0, <1>1, <2>0 DEF Tracks
  <2> QED BY <2>1, <2>2, <2>3 DEF Tracks
<1>4. CASE Reserves(r, x) \/ Passes(r, x)
  <2>1. /\ x.state = r.state /\ x.rejected = r.rejected /\ x.alloced = r.alloced
        /\ x.running = r.running /\ x.canceled = r.canceled
    BY <1>4 DEF Reserves, Passes, Moves
  <2> QED BY <2>1 DEF Tracks, Answered, Outstanding
<1> QED BY <1>2, <1>3, <1>4

\* post_sched_loop answers all there is to answer, and shows estimates for jobs
\* that still wait.
LEMMA PostTracks ==
    ASSUME TypeOK, NEW r, QInv(r), Tracks(r, jm, est), post_sched_loop(r)
    PROVE  Tracks(q', jm', est')
<1> DEFINE changed == {j \in IdsOf(WithinDepth(r.pending)) : r.sched[j].at # r.sched[j].oldAt}
<1>0. r.state \in [Job -> JobState]
  BY Fields DEF QInv
<1>1. /\ q'.state = [j \in Job |-> IF j \in r.canceled THEN "NONE" ELSE r.state[j]]
      /\ q'.alloced = {} /\ q'.rejected = {} /\ q'.canceled = {}
      /\ q'.running = r.running
  BY PostEffect
<1>2. /\ jm' = [j \in Job |-> IF j \in r.alloced THEN "alloced"
                              ELSE IF j \in r.rejected THEN "gone"
                              ELSE IF j \in r.canceled THEN "idle"
                              ELSE jm[j]]
      /\ est' = [j \in Job |-> IF j \in r.alloced \cup r.rejected \cup r.canceled THEN 0
                               ELSE IF j \in changed THEN r.sched[j].at
                               ELSE est[j]]
  BY DEF post_sched_loop
<1>3. \A j \in changed : r.state[j] = "PENDING"
  <2>1. \A j \in changed : \E e \in r.pending : e.id = j
    BY DEF IdsOf, WithinDepth
  <2> QED BY <2>1, KeysDistinct
<1> HIDE DEF changed
<1>4. \A j \in Job : q'.state[j] = IF j \in r.canceled THEN "NONE" ELSE r.state[j]
  BY <1>1
<1>5. Answered(q')
  BY <1>1, <1>4 DEF Tracks, Answered
<1>6. ASSUME NEW j \in Job
      PROVE  /\ jm'[j] = "waiting" <=> j \in Outstanding(q')
             /\ est'[j] # 0 => jm'[j] = "waiting"
             /\ jm'[j] = "alloced" => q'.state[j] \in {"NONE", "RUNNING", "ALLOC_RUNNING"}
  <2>1. /\ j \in r.alloced => r.state[j] = "ALLOC_RUNNING"
        /\ j \in r.rejected => r.state[j] = "REJECTED"
        /\ j \in r.canceled => r.state[j] = "CANCELED"
        /\ jm[j] = "waiting" <=> j \in Outstanding(r)
        /\ est[j] # 0 => jm[j] = "waiting"
        /\ jm[j] = "alloced" => r.state[j] \in {"NONE", "RUNNING", "ALLOC_RUNNING"}
    BY DEF Tracks, Answered
  <2>2. j \in Outstanding(q') <=> q'.state[j] = "PENDING"
    BY <1>1 DEF Outstanding
  <2>3. j \in Outstanding(r) <=> \/ r.state[j] = "PENDING" \/ j \in r.alloced
                                 \/ j \in r.rejected \/ j \in r.canceled
    BY DEF Outstanding
  <2>4. CASE j \in r.alloced \cup r.rejected \cup r.canceled
    BY <1>2, <1>4, <2>1, <2>2, <2>4
  <2>5. CASE j \notin r.alloced \cup r.rejected \cup r.canceled
    <3>1. jm'[j] = jm[j] /\ q'.state[j] = r.state[j]
      BY <1>2, <1>4, <2>5
    <3>2. est'[j] # 0 => est[j] # 0 \/ j \in changed
      BY <1>2, <2>5
    <3> QED BY <1>3, <2>1, <2>2, <2>3, <2>5, <3>1, <3>2
  <2> QED BY <2>4, <2>5
<1> QED BY <1>5, <1>6 DEF Tracks

\* The invariant with the answers tracked.
TInv == SInv /\ Tracks(q, jm, est)

\* What a callback does that opens a loop or not, before the answers are posted.
LEMMA RunTracks ==
    ASSUME SInv, NEW ok \in BOOLEAN, ~q.active, NEW v, NEW t, Tracks(q, v, t)
    PROVE  LET r == run_sched_loop(ok).q IN QInv(r) /\ Tracks(r, v, t)
<1>0. QInv(q) /\ q \in QueueState
  BY DEF SInv, IInv, QInv
<1>1. CASE Policy = "fcfs"
  <2> DEFINE n == fcfs_run_sched_loop(q)
  <2>1. run_sched_loop(ok) = n
    BY <1>1 DEF run_sched_loop
  <2>2. QInv(n.q) /\ Settles(q, n.q)
    BY <1>0, FcfsRunInv, FcfsRunEffect
  <2> HIDE DEF n
  <2> QED BY <1>0, <2>1, <2>2, SettlesTracks DEF QInv
<1>2. CASE Policy # "fcfs"
  <2> DEFINE n == bf_run_sched_loop(q, ok)
  <2>1. run_sched_loop(ok) = n
    BY <1>2 DEF run_sched_loop
  <2>2. /\ QInv(n.q)
        /\ Settles(q, n.q) \/ \E x : QInv(x) /\ Opens(q, x) /\ Drives(x, n)
    BY <1>0, BackfillRunInv, BackfillRunEffect DEF Driven
  <2> HIDE DEF n
  <2>3. Settles(q, n.q)
    BY <2>2, Composes DEF Opens, Drives
  <2> QED BY <1>0, <2>1, <2>2, <2>3, SettlesTracks DEF QInv
<1> QED BY <1>1, <1>2

\* Every step keeps the answers tracked.
LEMMA NextTracks ==
    ASSUME TInv, [Next]_vars
    PROVE  TInv'
<1>0. /\ SInv /\ SInv' /\ IInv /\ QInv(q) /\ QInv(q') /\ TypeOK
      /\ q \in QueueState /\ q' \in QueueState /\ Tracks(q, jm, est)
  BY NextStream DEF TInv, SInv, IInv, QInv
<1>1. ASSUME Quiet PROVE Tracks(q', jm', est')
  BY <1>0, <1>1, SettlesTracks DEF Quiet, Calm
<1>2. ASSUME NEW j \in Job, NEW p \in Priority, jobmanager_alloc_cb(j, p)
      PROVE  Tracks(q', jm', est')
  <2>0. /\ jm \in [Job -> {"idle", "waiting", "alloced", "gone"}]
        /\ q.state \in [Job -> JobState] /\ est' = est /\ jm[j] = "idle"
    BY <1>0, <1>2, AllocEffect, Fields DEF TypeOK
  <2>1. CASE q' = q /\ jm' = [jm EXCEPT ![j] = "gone"]
    BY <1>0, <2>0, <2>1 DEF Tracks
  <2>2. CASE /\ q.state[j] = "NONE" /\ jm' = [jm EXCEPT ![j] = "waiting"]
             /\ q'.state = [q.state EXCEPT ![j] = "PENDING"]
             /\ q'.alloced = q.alloced /\ q'.rejected = q.rejected
             /\ q'.canceled = q.canceled /\ q'.running = q.running
    <3>1. q.alloced \subseteq Job /\ q.rejected \subseteq Job /\ q.canceled \subseteq Job
      BY <1>0, Fields
    <3>2. Answered(q')
      BY <1>0, <2>0, <2>2, <3>1 DEF Tracks, Answered
    <3>3. \A i \in Job : i \in Outstanding(q') <=> i \in Outstanding(q) \/ i = j
      BY <2>0, <2>2 DEF Outstanding
    <3>4. \A i \in Job : jm'[i] = "alloced" => q'.state[i] \in {"NONE", "RUNNING", "ALLOC_RUNNING"}
      BY <1>0, <2>0, <2>2 DEF Tracks
    <3>5. \A i \in Job : /\ jm'[i] = "waiting" <=> i \in Outstanding(q')
                         /\ est'[i] # 0 => jm'[i] = "waiting"
      BY <1>0, <2>0, <2>2, <3>3 DEF Tracks
    <3> QED BY <3>2, <3>4, <3>5 DEF Tracks
  <2> QED BY <1>0, <1>2, <2>1, <2>2, AllocEffect
<1>3. ASSUME NEW j \in Job, NEW final \in BOOLEAN, jobmanager_free_cb(j, final)
      PROVE  Tracks(q', jm', est')
  <2>0. /\ jm \in [Job -> {"idle", "waiting", "alloced", "gone"}]
        /\ q.state \in [Job -> JobState] /\ jm[j] = "alloced"
    BY <1>0, <1>3, Fields DEF TypeOK, jobmanager_free_cb
  <2>1. q.state[j] \in {"NONE", "RUNNING", "ALLOC_RUNNING"}
    BY <1>0, <2>0 DEF Tracks
  <2>2. /\ est' = est
        /\ jm' = [jm EXCEPT ![j] = IF final THEN "gone" ELSE @]
        /\ \/ q' = q
           \/ \E gone \in BOOLEAN :
                 /\ q'.state = IF gone THEN [q.state EXCEPT ![j] = "NONE"] ELSE q.state
                 /\ q'.alloced = IF gone THEN q.alloced \ {j} ELSE q.alloced
                 /\ q'.running = IF gone THEN q.running \ {j} ELSE q.running
                 /\ q'.rejected = q.rejected /\ q'.canceled = q.canceled
    BY <1>0, <1>3, <2>1, FreeEffect
  <2>3. j \notin Outstanding(q) /\ est[j] = 0
    BY <1>0, <2>0 DEF Tracks
  <2>4. \A i \in Job : jm'[i] = "waiting" <=> jm[i] = "waiting"
    BY <2>0, <2>2
  <2>5. \A i \in Job : jm'[i] = "alloced" => jm[i] = "alloced"
    BY <2>0, <2>2
  <2>6. CASE q' = q
    BY <1>0, <2>2, <2>4, <2>5, <2>6 DEF Tracks
  <2>7. CASE \E gone \in BOOLEAN :
                 /\ q'.state = IF gone THEN [q.state EXCEPT ![j] = "NONE"] ELSE q.state
                 /\ q'.alloced = IF gone THEN q.alloced \ {j} ELSE q.alloced
                 /\ q'.running = IF gone THEN q.running \ {j} ELSE q.running
                 /\ q'.rejected = q.rejected /\ q'.canceled = q.canceled
    <3>1. CASE /\ q'.state = q.state /\ q'.alloced = q.alloced /\ q'.running = q.running
               /\ q'.rejected = q.rejected /\ q'.canceled = q.canceled
      BY <1>0, <2>2, <2>4, <2>5, <3>1 DEF Tracks, Answered, Outstanding
    <3>2. CASE /\ q'.state = [q.state EXCEPT ![j] = "NONE"] /\ q'.alloced = q.alloced \ {j}
               /\ q'.running = q.running \ {j}
               /\ q'.rejected = q.rejected /\ q'.canceled = q.canceled
      <4>1. q.alloced \subseteq Job /\ q.rejected \subseteq Job /\ q.canceled \subseteq Job
        BY <1>0, Fields
      <4>2. j \notin q.alloced /\ j \notin q.rejected /\ j \notin q.canceled
        BY <2>3 DEF Outstanding
      <4>3. Answered(q')
        BY <1>0, <2>0, <3>2, <4>1, <4>2 DEF Tracks, Answered
      <4>4. \A i \in Job : i \in Outstanding(q') <=> i \in Outstanding(q)
        BY <2>0, <2>1, <3>2, <4>2 DEF Outstanding
      <4>5. \A i \in Job : jm'[i] = "alloced" => q'.state[i] \in {"NONE", "RUNNING", "ALLOC_RUNNING"}
        BY <1>0, <2>0, <2>5, <3>2 DEF Tracks
      <4> QED BY <1>0, <2>2, <2>4, <4>3, <4>4, <4>5 DEF Tracks
    <3> QED BY <2>7, <3>1, <3>2
  <2> QED BY <2>2, <2>6, <2>7
<1>4. ASSUME match_allocate_multi_cont PROVE Tracks(q', jm', est')
  <2>0. jm' = jm /\ est' = est
    BY <1>4 DEF match_allocate_multi_cont
  <2>1. ASSUME NEW x, QInv(x), Tracks(x, jm, est), Settles(x, q') PROVE Tracks(q', jm', est')
    BY <1>0, <2>0, <2>1, SettlesTracks DEF QInv
  <2>2. CASE Policy # "fcfs"
    <3>1. CASE q' = q
      BY <1>0, <2>0, <3>1
    <3>2. CASE /\ q.iter # Nil
               /\ \E x : /\ Starts(q, x) \/ Rejects(q, x) \/ Reserves(q, x) \/ Passes(q, x)
                         /\ Continues(x)
      <4>1. PICK x : /\ Starts(q, x) \/ Rejects(q, x) \/ Reserves(q, x) \/ Passes(q, x)
                     /\ Continues(x)
        BY <3>2
      <4>2. QInv(x) /\ Settles(x, q')
        BY <4>1 DEF Continues, Drives
      <4> QED BY <1>0, <2>1, <3>2, <4>1, <4>2, DecidesTracks
    <3> QED BY <1>0, <1>4, <2>2, <3>1, <3>2, BackfillDecision
  <2>3. CASE Policy = "fcfs"
    <3>1. CASE q.iter # Nil /\ Starts(q, q')
      BY <1>0, <2>0, <3>1, DecidesTracks
    <3>2. CASE \E x : (x = q \/ (q.iter # Nil /\ Rejects(q, x))) /\ Settles(x, q')
      <4>1. PICK x : (x = q \/ (q.iter # Nil /\ Rejects(q, x))) /\ Settles(x, q')
        BY <3>2
      <4>2. Tracks(x, jm, est)
        BY <1>0, <4>1, DecidesTracks
      <4> QED BY <1>0, <2>0, <4>1, <4>2, SettlesTracks
    <3> QED BY <1>0, <1>4, <2>3, <3>1, <3>2, FcfsDecision
  <2> QED BY <2>2, <2>3
<1>5. ASSUME check_watcher_cb PROVE Tracks(q', jm', est')
  <2>1. CASE UNCHANGED <<q, jm, est, rjobs, reqs>>
    BY <1>0, <2>1
  <2>2. CASE post_sched_loop(q)
    BY <1>0, <2>2, PostTracks
  <2>3. ASSUME NEW ok \in BOOLEAN, ~q.active,
               \/ post_sched_loop(run_sched_loop(ok).q)
               \/ q' = run_sched_loop(ok).q /\ UNCHANGED <<jm, est>>
        PROVE  Tracks(q', jm', est')
    BY <1>0, <2>3, RunTracks, PostTracks
  <2> QED BY <1>0, <1>5, <2>1, <2>2, <2>3, CheckCases
<1>6. ASSUME MatchService PROVE Tracks(q', jm', est')
  BY <1>0, <1>6 DEF MatchService
<1>7. Tracks(q', jm', est')
  BY <1>0, <1>1, <1>2, <1>3, <1>4, <1>5, <1>6, QuietSteps DEF Next
<1> QED BY <1>0, <1>7 DEF TInv

\* The handshakes leave no answer outstanding.
LEMMA InitTracks ==
    ASSUME Init
    PROVE  /\ Tracks(q, jm, est) /\ q.reserved = {} /\ q.reservationCnt = 0
           /\ ~q.active /\ Deferring(q) /\ Wakes(q)
           /\ \A j \in Job : rjobs[j] = IF j \in q.running THEN "ALLOCATED" ELSE "NONE"
<1>1. PICK S \in SUBSET Job :
          /\ q = reconstruct_queue(resource_changed(EmptyQueue), S)
          /\ jm = [j \in Job |-> IF j \in S THEN "alloced" ELSE "idle"]
          /\ rjobs = [j \in Job |-> IF j \in S THEN "ALLOCATED" ELSE "NONE"]
  BY DEF Init
<1>2. est = [j \in Job |-> 0]
  BY DEF Init
<1> DEFINE x == resource_changed(EmptyQueue)
           T == [j \in Job |-> IF j \in S THEN "RUNNING" ELSE x.state[j]]
<1>3. /\ EmptyQueue \in QueueState
      /\ EmptyQueue.state = [j \in Job |-> "NONE"] /\ EmptyQueue.pending = {}
      /\ EmptyQueue.blocked = {} /\ EmptyQueue.provisional = {}
      /\ EmptyQueue.canceled = {} /\ EmptyQueue.alloced = {} /\ EmptyQueue.rejected = {}
      /\ EmptyQueue.running = {} /\ EmptyQueue.reserved = {}
      /\ EmptyQueue.reservationCnt = 0
      /\ EmptyQueue.cancelProv = << >> /\ EmptyQueue.reprioProv = << >>
      /\ EmptyQueue.reconsider = FALSE
      /\ EmptyQueue.iter = Nil /\ EmptyQueue.active = FALSE
  BY BaseAssumption
     DEF EmptyQueue, QueueState, JobState, Priority, Schedule, NoSchedule
<1>4. QInv(EmptyQueue)
  BY <1>3 DEF QInv, Partitioned, Stamped, Cursor, Settled
<1>5. Deferring(EmptyQueue) /\ Wakes(EmptyQueue)
  BY <1>3 DEF Deferring, Drained, Wakes
<1>6. /\ QInv(x) /\ Calm(EmptyQueue, x) /\ Deferring(x)
  BY <1>4, <1>5, ResourceChangedInv, ResourceChangedCalm
<1> HIDE DEF x
<1>7. /\ x.alloced = {} /\ x.rejected = {} /\ x.running = {} /\ x.reserved = {}
      /\ x.reservationCnt = 0 /\ x.active = FALSE /\ x.canceled = {} /\ Wakes(x)
      /\ \A j \in Job : x.state[j] = "NONE"
  <2>1. x.canceled \subseteq Job
    BY <1>6, Fields DEF QInv
  <2> QED BY <1>3, <1>5, <1>6, <2>1 DEF Calm, Settles
<1>8. q = [x EXCEPT !.state = T, !.running = x.running \cup S]
  BY <1>1 DEF reconstruct_queue, x
<1>9. \A j \in Job : T[j] = IF j \in S THEN "RUNNING" ELSE "NONE"
  BY <1>7
<1>10. x \in QueueState
  BY <1>6 DEF QInv
<1> HIDE DEF T
<1>11. /\ q.state = T /\ q.running = x.running \cup S /\ q.alloced = x.alloced
       /\ q.rejected = x.rejected /\ q.canceled = x.canceled /\ q.reserved = x.reserved
       /\ q.reservationCnt = x.reservationCnt /\ q.active = x.active
       /\ q.cancelProv = x.cancelProv /\ q.reprioProv = x.reprioProv
       /\ q.reconsider = x.reconsider /\ q.provisional = x.provisional
       /\ q.schedulable = x.schedulable
  BY <1>8, <1>10 DEF QueueState
<1>12. Deferring(q) /\ Wakes(q)
  BY <1>6, <1>7, <1>11 DEF Deferring, Drained, Wakes
<1>13. Answered(q)
  BY <1>7, <1>9, <1>11 DEF Answered
<1>14. Tracks(q, jm, est)
  BY <1>1, <1>2, <1>7, <1>9, <1>11, <1>13 DEF Tracks, Outstanding
<1> QED BY <1>1, <1>7, <1>11, <1>12, <1>14

\* The answers are tracked in every reachable state.
THEOREM TrackInvariance == Spec => []TInv
<1>1. Init => TInv
  <2> SUFFICES ASSUME Init PROVE TInv
    OBVIOUS
  <2>1. reqs = << >> /\ resps = << >>
    BY DEF Init
  <2>2. SInv
    BY <2>1, InitInv DEF SInv, FcfsStream, RequestsFollow, ResponsesFollow
  <2> QED BY <2>2, InitTracks DEF TInv
<1>2. TInv /\ [Next]_vars => TInv'
  BY NextTracks
<1> QED BY <1>1, <1>2, PTL DEF Spec

\* No alloc request is lost and none is answered twice, whatever is canceled,
\* rejected, deferred or posted when: the job manager waits for a job exactly when
\* the job is pending or in one of the queues post_sched_loop drains, and in only
\* one of these.
THEOREM Requests == Spec => []RequestTracked
<1>1. TInv => RequestTracked
  <2> SUFFICES ASSUME TInv, NEW j \in Job
               PROVE  LET places == {m \in {"pending", "alloced", "rejected", "canceled"} :
                                        CASE m = "pending"  -> q.state[j] = "PENDING"
                                          [] m = "alloced"  -> j \in q.alloced
                                          [] m = "rejected" -> j \in q.rejected
                                          [] m = "canceled" -> j \in q.canceled}
                      IN  /\ Cardinality(places) = IF jm[j] = "waiting" THEN 1 ELSE 0
                          /\ est[j] # 0 => jm[j] = "waiting"
    BY DEF RequestTracked
  <2> DEFINE places == {m \in {"pending", "alloced", "rejected", "canceled"} :
                            CASE m = "pending"  -> q.state[j] = "PENDING"
                              [] m = "alloced"  -> j \in q.alloced
                              [] m = "rejected" -> j \in q.rejected
                              [] m = "canceled" -> j \in q.canceled}
  <2>1. /\ j \in q.alloced => q.state[j] = "ALLOC_RUNNING"
        /\ j \in q.rejected => q.state[j] = "REJECTED"
        /\ j \in q.canceled => q.state[j] = "CANCELED"
        /\ jm[j] = "waiting" <=> j \in Outstanding(q)
        /\ est[j] # 0 => jm[j] = "waiting"
    BY DEF TInv, Tracks, Answered
  <2>2. j \in Outstanding(q) <=> \/ q.state[j] = "PENDING" \/ j \in q.alloced
                                 \/ j \in q.rejected \/ j \in q.canceled
    BY DEF Outstanding
  <2>3. /\ "pending" \in places <=> q.state[j] = "PENDING"
        /\ "alloced" \in places <=> j \in q.alloced
        /\ "rejected" \in places <=> j \in q.rejected
        /\ "canceled" \in places <=> j \in q.canceled
        /\ places \subseteq {"pending", "alloced", "rejected", "canceled"}
    OBVIOUS
  <2> HIDE DEF places
  <2>4. CASE jm[j] = "waiting"
    <3>1. \E m : places = {m}
      <4>1. CASE q.state[j] = "PENDING"
        <5>1. places = {"pending"}
          BY <2>1, <2>3, <4>1
        <5> QED BY <5>1
      <4>2. CASE j \in q.alloced
        <5>1. places = {"alloced"}
          BY <2>1, <2>3, <4>2
        <5> QED BY <5>1
      <4>3. CASE j \in q.rejected
        <5>1. places = {"rejected"}
          BY <2>1, <2>3, <4>3
        <5> QED BY <5>1
      <4>4. CASE j \in q.canceled
        <5>1. places = {"canceled"}
          BY <2>1, <2>3, <4>4
        <5> QED BY <5>1
      <4> QED BY <2>1, <2>2, <2>4, <4>1, <4>2, <4>3, <4>4
    <3>2. Cardinality(places) = 1
      BY <3>1, FS_Singleton
    <3> QED BY <2>1, <2>4, <3>2 DEF places
  <2>5. CASE jm[j] # "waiting"
    <3>1. places = {}
      BY <2>1, <2>2, <2>3, <2>5
    <3>2. Cardinality(places) = 0
      BY <3>1, FS_EmptySet
    <3> QED BY <2>1, <2>5, <3>2 DEF places
  <2> QED BY <2>4, <2>5
<1> QED BY <1>1, TrackInvariance, PTL

-----------------------------------------------------------------------------
\* The queue and the resource module agree up to the verdicts in flight, each of
\* which is what the tables say and is not yet in m_reserved.
Agreement ==
    /\ Policy = "fcfs" => q.reserved = {}
    /\ \A j \in q.running : rjobs[j] \in {"ALLOCATED", "ALLOC_ERROR", "ERROR"}
    /\ \A j \in q.reserved : rjobs[j] = "RESERVED"
    /\ \A j \in Job : rjobs[j] = "ALLOCATED" => j \in q.running \/ InFlight(j, "ALLOCATED")
    /\ \A j \in Job : rjobs[j] = "RESERVED" => j \in q.reserved \/ InFlight(j, "RESERVED")
    /\ \A i \in DOMAIN resps : resps[i].kind = "ok" =>
          rjobs[resps[i].job] = resps[i].status /\ resps[i].job \notin q.reserved

\* The invariant with the tables of the resource module.
AInv == TInv /\ Agreement

\* A success in flight is about a job that is still pending, and there is none
\* when no loop is active.
LEMMA InFlightPending ==
    ASSUME SInv, NEW i \in DOMAIN resps, resps[i].kind = "ok"
    PROVE  /\ q.active /\ resps[i].job \in Job /\ q.state[resps[i].job] = "PENDING"
           /\ resps[i].status \in {"ALLOCATED", "RESERVED"}
<1>0. QInv(q) /\ TypeOK /\ Channels
  BY DEF SInv, IInv
<1>1. resps[i] \in Success \cup Failure
  BY <1>0 DEF TypeOK
<1>2. /\ resps[i].job \in Job /\ resps[i] # EndOfStream
      /\ resps[i].status \in {"ALLOCATED", "RESERVED"}
  BY <1>1, MessageTypes
<1>3. \E e \in q.pending : e.id = resps[i].job /\ q.active
  <2>1. CASE Policy # "fcfs"
    <3>1. q.active /\ resps[i].job = q.iter
      BY <1>0, <1>2, <2>1 DEF Channels, BackfillChannels
    <3>2. q.iter # Nil
      BY <1>2, <3>1, BaseAssumption
    <3>3. get_key(q, q.iter) \in q.pending
      BY <1>0, <3>2 DEF QInv, Cursor
    <3>4. get_key(q, q.iter).id = q.iter
      BY DEF get_key
    <3> QED BY <3>1, <3>3, <3>4
  <2>2. CASE Policy = "fcfs"
    <3>1. q.active
      BY <1>0, <2>2 DEF Channels, FcfsChannels
    <3>2. Follows(q.pending, resps[i].job, Heard(resps, i))
      BY <2>2 DEF SInv, FcfsStream, ResponsesFollow
    <3> QED BY <3>1, <3>2 DEF Follows
  <2> QED BY <2>1, <2>2
<1> QED BY <1>0, <1>2, <1>3, KeysDistinct

\* Agreement survives a step that leaves the tables, the holders and the responses
\* alone.
LEMMA SameAgreement ==
    ASSUME Agreement, UNCHANGED <<rjobs, resps>>,
           q'.running = q.running, q'.reserved = q.reserved
    PROVE  Agreement'
  BY DEF Agreement, InFlight

\* A free request of a running job.
LEMMA FreeAgreement ==
    ASSUME AInv, NEW j \in Job, NEW final \in BOOLEAN, jobmanager_free_cb(j, final)
    PROVE  Agreement'
<1>0. SInv /\ IInv /\ TypeOK /\ Agreement /\ Tracks(q, jm, est)
  BY DEF AInv, TInv, SInv, IInv
<1>1. jm[j] = "alloced"
  BY DEF jobmanager_free_cb
<1>2. q.state[j] \in {"NONE", "RUNNING", "ALLOC_RUNNING"}
  BY <1>0, <1>1 DEF Tracks
<1>3. CASE UNCHANGED <<q, rjobs>>
  <2>1. resps' = resps
    BY DEF jobmanager_free_cb
  <2> QED BY <1>0, <1>3, <2>1, SameAgreement
<1>4. CASE \E gone \in BOOLEAN :
              /\ q.state[j] # "NONE" /\ resps' = resps
              /\ q'.running = IF gone THEN q.running \ {j} ELSE q.running
              /\ q'.reserved = q.reserved
              /\ q.state[j] \in {"RUNNING", "ALLOC_RUNNING"} => Releases(j, gone)
  <2>1. PICK gone \in BOOLEAN :
              /\ q.state[j] # "NONE" /\ resps' = resps
              /\ q'.running = IF gone THEN q.running \ {j} ELSE q.running
              /\ q'.reserved = q.reserved
              /\ q.state[j] \in {"RUNNING", "ALLOC_RUNNING"} => Releases(j, gone)
    BY <1>4
  <2>2. j \in q.running /\ Releases(j, gone)
    BY <1>0, <1>2, <2>1 DEF Tracks, Answered
  <2>3. /\ rjobs[j] \in {"ALLOCATED", "ALLOC_ERROR", "ERROR"}
        /\ \A i \in Job \ {j} : rjobs'[i] = rjobs[i]
        /\ IF gone THEN rjobs'[j] \in {"NONE", "ERROR"}
                   ELSE rjobs'[j] \in {rjobs[j], "ERROR", "ALLOC_ERROR"}
    BY <1>0, <2>2 DEF Agreement, Releases
  <2>4. q.running \subseteq Job /\ q.reserved \subseteq Job
    BY <1>0, Fields DEF TypeOK
  <2>5. \A i \in q'.running : rjobs'[i] \in {"ALLOCATED", "ALLOC_ERROR", "ERROR"}
    BY <1>0, <2>1, <2>3, <2>4 DEF Agreement
  <2>6. \A i \in q'.reserved : rjobs'[i] = "RESERVED"
    BY <1>0, <2>1, <2>3, <2>4 DEF Agreement
  <2>7. \A i \in Job : rjobs'[i] = "ALLOCATED" => i \in q'.running \/ InFlight(i, "ALLOCATED")'
    BY <1>0, <2>1, <2>3 DEF Agreement, InFlight
  <2>8. \A i \in Job : rjobs'[i] = "RESERVED" => i \in q'.reserved \/ InFlight(i, "RESERVED")'
    BY <1>0, <2>1, <2>3 DEF Agreement, InFlight
  <2>9. ASSUME NEW i \in DOMAIN resps, resps[i].kind = "ok"
        PROVE  rjobs'[resps[i].job] = resps[i].status /\ resps[i].job \notin q'.reserved
    <3>1. resps[i].job \in Job \ {j}
      BY <1>0, <1>2, <2>9, InFlightPending
    <3> QED BY <1>0, <2>1, <2>3, <2>9, <3>1 DEF Agreement
  <2>10. Policy = "fcfs" => q'.reserved = {}
    BY <1>0, <2>1 DEF Agreement
  <2> QED BY <2>1, <2>5, <2>6, <2>7, <2>8, <2>9, <2>10 DEF Agreement
<1> QED BY <1>0, <1>2, <1>3, <1>4, FreeEffect

\* A match enters the tables and its verdict is in flight.
LEMMA ServiceAgreement ==
    ASSUME AInv, MatchService
    PROVE  Agreement'
<1>0. SInv /\ TypeOK /\ Channels /\ Agreement
  BY DEF AInv, TInv, SInv, IInv
<1> DEFINE M == Success \cup Failure
           R == [jobs : Seq(Job), reserve : BOOLEAN]
           req == Head(reqs)
<1>1. reqs # << >> /\ q' = q
  BY <1>0, ServiceAnswer
<1>2. PICK oks \in Seq(M), e \in Failure :
          resps' = resps \o oks \o <<e>> /\ Answers(req, oks, e)
  BY <1>0, ServiceAnswer
<1>3. e \in M /\ resps \in Seq(M) /\ reqs \in Seq(R)
  BY <1>0 DEF TypeOK
<1> HIDE DEF M, R
<1>4. /\ Len(resps) \in Nat /\ Len(oks) \in Nat
      /\ DOMAIN resps = 1..Len(resps)
      /\ DOMAIN resps' = 1..(Len(resps) + Len(oks) + 1)
      /\ \A i \in 1..Len(resps) : resps'[i] = resps[i]
      /\ \A i \in 1..Len(oks) : resps'[Len(resps) + i] = oks[i]
      /\ resps'[Len(resps) + Len(oks) + 1] = e
  <2>1. DOMAIN resps = 1..Len(resps)
    BY <1>3
  <2> QED BY <1>2, <1>3, <2>1, ConcatAppend
<1>5. req = reqs[1] /\ 1 \in DOMAIN reqs
  BY <1>1, <1>3, HeadTail
<1> HIDE DEF req
<1>6. /\ Len(oks) <= Len(req.jobs)
      /\ \A i \in 1..Len(oks) :
          /\ oks[i].kind = "ok" /\ oks[i].job = req.jobs[i] /\ req.jobs[i] \in Job
          /\ oks[i].status \in {"ALLOCATED", "RESERVED"}
          /\ oks[i].status = "RESERVED" => req.reserve
          /\ rjobs[req.jobs[i]] = "NONE"
      /\ e.kind = "err"
      /\ \A j \in Job :
          IF \E i \in 1..Len(oks) : req.jobs[i] = j
          THEN \E i \in 1..Len(oks) : oks[i].job = j /\ rjobs'[j] = oks[i].status
          ELSE rjobs'[j] = rjobs[j]
  BY <1>2 DEF Answers
<1>7. ASSUME NEW i \in 1..Len(oks), NEW k \in 1..Len(oks) PROVE oks[i].status = oks[k].status
  <2>1. CASE Policy = "fcfs"
    <3>1. ~req.reserve
      BY <1>0, <1>5, <2>1 DEF SInv, FcfsStream, RequestsFollow
    <3> QED BY <1>6, <3>1
  <2>2. CASE Policy # "fcfs"
    <3>1. \E b \in BOOLEAN : reqs = << [jobs |-> <<q.iter>>, reserve |-> b] >>
      BY <1>0, <1>1, <2>2 DEF Channels, BackfillChannels
    <3>2. Len(req.jobs) = 1
      BY <1>5, <3>1
    <3> QED BY <1>4, <1>6, <3>2
  <2> QED BY <2>1, <2>2
<1>8. ASSUME NEW i \in 1..Len(oks)
      PROVE  rjobs'[oks[i].job] = oks[i].status /\ rjobs[oks[i].job] = "NONE"
  <2>1. oks[i].job = req.jobs[i] /\ req.jobs[i] \in Job /\ rjobs[req.jobs[i]] = "NONE"
    BY <1>6
  <2>2. \E k \in 1..Len(oks) : rjobs'[req.jobs[i]] = oks[k].status
    BY <1>6, <2>1
  <2> QED BY <1>7, <2>1, <2>2
<1>9. \A j \in Job : rjobs'[j] = rjobs[j] \/ \E i \in 1..Len(oks) : oks[i].job = j /\ rjobs[j] = "NONE"
  BY <1>6
<1>10. \A j \in Job : rjobs[j] # "NONE" => rjobs'[j] = rjobs[j]
  BY <1>6
<1>11. q.running \subseteq Job /\ q.reserved \subseteq Job
  BY <1>0, Fields DEF TypeOK
<1>12. \A i \in q'.running : rjobs'[i] \in {"ALLOCATED", "ALLOC_ERROR", "ERROR"}
  BY <1>0, <1>1, <1>10, <1>11 DEF Agreement
<1>13. \A i \in q'.reserved : rjobs'[i] = "RESERVED"
  BY <1>0, <1>1, <1>10, <1>11 DEF Agreement
<1>14. \A j, s : InFlight(j, s) => InFlight(j, s)'
  BY <1>4 DEF InFlight
<1>15. \A i \in 1..Len(oks) : InFlight(oks[i].job, oks[i].status)'
  <2> TAKE i \in 1..Len(oks)
  <2>1. Len(resps) + i \in DOMAIN resps' /\ resps'[Len(resps) + i] = oks[i] /\ oks[i].kind = "ok"
    BY <1>4, <1>6
  <2> QED BY <2>1 DEF InFlight
<1>16. ASSUME NEW j \in Job, NEW s \in {"ALLOCATED", "RESERVED"}, rjobs'[j] = s
       PROVE  rjobs[j] = s \/ InFlight(j, s)'
  <2>1. CASE rjobs'[j] = rjobs[j]
    BY <1>16, <2>1
  <2>2. CASE \E i \in 1..Len(oks) : oks[i].job = j
    BY <1>8, <1>15, <1>16, <2>2
  <2> QED BY <1>9, <2>1, <2>2
<1>17. \A j \in Job : rjobs'[j] = "ALLOCATED" => j \in q'.running \/ InFlight(j, "ALLOCATED")'
  BY <1>0, <1>1, <1>14, <1>16 DEF Agreement
<1>18. \A j \in Job : rjobs'[j] = "RESERVED" => j \in q'.reserved \/ InFlight(j, "RESERVED")'
  BY <1>0, <1>1, <1>14, <1>16 DEF Agreement
<1>19. ASSUME NEW i \in DOMAIN resps', resps'[i].kind = "ok"
       PROVE  rjobs'[resps'[i].job] = resps'[i].status /\ resps'[i].job \notin q'.reserved
  <2>1. CASE i \in 1..Len(resps)
    <3>1. i \in DOMAIN resps /\ resps[i].kind = "ok" /\ resps'[i] = resps[i]
      BY <1>4, <1>19, <2>1
    <3>2. resps[i].job \in Job /\ resps[i].status # "NONE"
      BY <1>0, <3>1, InFlightPending
    <3> QED BY <1>0, <1>1, <1>10, <3>1, <3>2 DEF Agreement
  <2>2. CASE i \in (Len(resps) + 1)..(Len(resps) + Len(oks))
    <3>1. i - Len(resps) \in 1..Len(oks) /\ i = Len(resps) + (i - Len(resps))
      BY <1>4, <2>2
    <3>2. resps'[i] = oks[i - Len(resps)]
      BY <1>4, <3>1
    <3>3. rjobs[oks[i - Len(resps)].job] = "NONE"
      BY <1>8, <3>1
    <3> QED BY <1>0, <1>1, <1>8, <3>1, <3>2, <3>3 DEF Agreement
  <2>3. CASE i = Len(resps) + Len(oks) + 1
    BY <1>4, <1>6, <1>19, <2>3
  <2> QED BY <1>4, <2>1, <2>2, <2>3
<1>20. Policy = "fcfs" => q'.reserved = {}
  BY <1>0, <1>1 DEF Agreement
<1> QED BY <1>12, <1>13, <1>17, <1>18, <1>19, <1>20 DEF Agreement

\* A verdict that arrives turns what was in flight into what the queue holds.
LEMMA ContAgreement ==
    ASSUME AInv, match_allocate_multi_cont
    PROVE  Agreement'
<1>0. SInv /\ IInv /\ TypeOK /\ QInv(q) /\ Agreement
  BY DEF AInv, TInv, SInv, IInv
<1> DEFINE M == Success \cup Failure
<1>1. resps \in Seq(M) /\ resps # << >> /\ rjobs' = rjobs
  BY <1>0 DEF TypeOK, match_allocate_multi_cont
<1> HIDE DEF M
<1>2. /\ Len(resps) \in Nat /\ Len(resps) >= 1 /\ DOMAIN resps = 1..Len(resps)
      /\ DOMAIN Tail(resps) = 1..(Len(resps) - 1)
      /\ \A i \in 1..(Len(resps) - 1) : Tail(resps)[i] = resps[i + 1]
  BY <1>1, HeadTail
<1>3. ASSUME resps' = Tail(resps), NEW j, NEW s, InFlight(j, s)
      PROVE  \/ InFlight(j, s)'
             \/ resps[1].kind = "ok" /\ resps[1].job = j /\ resps[1].status = s
  <2>1. PICK i \in DOMAIN resps : resps[i].kind = "ok" /\ resps[i].job = j /\ resps[i].status = s
    BY <1>3 DEF InFlight
  <2>2. CASE i = 1
    BY <2>1, <2>2
  <2>3. CASE i # 1
    <3>1. i - 1 \in DOMAIN resps' /\ resps'[i - 1] = resps[i]
      BY <1>2, <1>3, <2>3
    <3> QED BY <2>1, <3>1 DEF InFlight
  <2> QED BY <2>2, <2>3
<1>4. ASSUME resps' = Tail(resps), NEW i \in DOMAIN resps'
      PROVE  i + 1 \in DOMAIN resps /\ resps'[i] = resps[i + 1]
  BY <1>2, <1>4
<1>5. ASSUME resps' = Tail(resps), resps[1].kind # "ok",
             q'.running = q.running, q'.reserved = q.reserved
      PROVE  Agreement'
  <2>1. \A j, s : InFlight(j, s) => InFlight(j, s)'
    BY <1>3, <1>5
  <2> QED BY <1>0, <1>1, <1>4, <1>5, <2>1 DEF Agreement
<1>6. ASSUME resps' = Tail(resps), resps[1].kind = "ok", resps[1].job = q.iter,
             resps[1].status = "ALLOCATED",
             q'.running = q.running \cup {q.iter}, q'.reserved = q.reserved
      PROVE  Agreement'
  <2>1. rjobs[q.iter] = "ALLOCATED"
    BY <1>0, <1>2, <1>6 DEF Agreement
  <2>2. \A j \in Job : rjobs'[j] = "ALLOCATED" => j \in q'.running \/ InFlight(j, "ALLOCATED")'
    BY <1>0, <1>1, <1>3, <1>6 DEF Agreement
  <2>3. \A j \in Job : rjobs'[j] = "RESERVED" => j \in q'.reserved \/ InFlight(j, "RESERVED")'
    BY <1>0, <1>1, <1>3, <1>6 DEF Agreement
  <2> QED BY <1>0, <1>1, <1>4, <1>6, <2>1, <2>2, <2>3 DEF Agreement
<1>7. CASE Policy = "fcfs"
  <2>1. CASE /\ resps[1].kind = "ok" /\ resps[1].job = q.iter
             /\ Starts(q, q') /\ resps' = Tail(resps)
    <3>1. resps[1].status = "ALLOCATED"
      BY <1>0, <1>2, <1>7, <2>1 DEF SInv, FcfsStream, ResponsesFollow
    <3> QED BY <1>6, <2>1, <3>1 DEF Starts
  <2>2. CASE /\ resps[1].kind = "err" /\ resps' = << >>
             /\ \A i \in DOMAIN resps : resps[i].kind = "err"
             /\ q'.reserved = q.reserved
             /\ \E x : (x = q \/ (q.iter # Nil /\ Rejects(q, x))) /\ Settles(x, q')
    <3>1. q'.running = q.running
      BY <2>2 DEF Rejects, Settles
    <3>2. \A j, s : ~InFlight(j, s)
      BY <2>2 DEF InFlight
    <3> QED BY <1>0, <1>1, <2>2, <3>1, <3>2 DEF Agreement
  <2> QED BY <1>0, <1>7, <2>1, <2>2, FcfsDecision
<1>8. CASE Policy # "fcfs"
  <2>0. resps' = Tail(resps)
    BY <1>0, <1>8, BackfillDecision
  <2>1. CASE resps[1] = EndOfStream /\ q' = q
    <3>1. resps[1].kind # "ok"
      BY <2>1 DEF EndOfStream
    <3> QED BY <1>5, <2>0, <2>1, <3>1
  <2>2. CASE /\ resps[1].kind = "ok" /\ resps[1].job = q.iter /\ resps[1].status = "RESERVED"
             /\ \E x : Reserves(q, x) /\ Continues(x)
             /\ \A i \in DOMAIN resps' : resps'[i] = EndOfStream
    <3>1. q'.reserved = q.reserved \cup {q.iter} /\ q'.running = q.running
      BY <2>2 DEF Reserves, Continues, Drives, Settles
    <3>2. rjobs[q.iter] = "RESERVED"
      BY <1>0, <1>2, <2>2 DEF Agreement
    <3>3. ASSUME NEW j \in Job, rjobs'[j] = "ALLOCATED"
          PROVE  j \in q'.running \/ InFlight(j, "ALLOCATED")'
      <4>1. j \in q.running \/ InFlight(j, "ALLOCATED")
        BY <1>0, <1>1, <3>3 DEF Agreement
      <4> QED BY <1>3, <2>0, <2>2, <3>1, <4>1
    <3>4. ASSUME NEW j \in Job, rjobs'[j] = "RESERVED"
          PROVE  j \in q'.reserved \/ InFlight(j, "RESERVED")'
      <4>1. j \in q.reserved \/ InFlight(j, "RESERVED")
        BY <1>0, <1>1, <3>4 DEF Agreement
      <4> QED BY <1>3, <2>0, <2>2, <3>1, <4>1
    <3>5. \A i \in DOMAIN resps' : resps'[i].kind # "ok"
      BY <2>2 DEF EndOfStream
    <3> QED BY <1>0, <1>1, <1>8, <3>1, <3>2, <3>3, <3>4, <3>5 DEF Agreement
  <2>3. CASE /\ resps[1].kind = "ok" /\ resps[1].job = q.iter /\ resps[1].status # "RESERVED"
             /\ \E x : Starts(q, x) /\ Continues(x)
    <3>1. q'.reserved = q.reserved /\ q'.running = q.running \cup {q.iter}
      BY <2>3 DEF Starts, Continues, Drives, Settles
    <3>2. resps[1].status = "ALLOCATED"
      BY <1>0, <1>2, <2>3, InFlightPending
    <3> QED BY <1>6, <2>0, <2>3, <3>1, <3>2
  <2>4. CASE /\ resps[1].kind = "err"
             /\ \E x : (Rejects(q, x) \/ Passes(q, x)) /\ Continues(x)
    <3>1. q'.reserved = q.reserved /\ q'.running = q.running
      BY <2>4 DEF Rejects, Passes, Continues, Drives, Settles
    <3>2. resps[1].kind # "ok"
      BY <2>4
    <3> QED BY <1>5, <2>0, <3>1, <3>2
  <2> QED BY <1>0, <1>8, <2>1, <2>2, <2>3, <2>4, BackfillDecision
<1> QED BY <1>7, <1>8

\* What run_sched_loop leaves behind: the running jobs, no reservation, and the
\* counter of the reservations at 0.
LEMMA RunHolders ==
    ASSUME AInv, NEW ok \in BOOLEAN, ~q.active
    PROVE  LET n == run_sched_loop(ok)
           IN  /\ QInv(n.q) /\ n.q.running = q.running /\ n.q.reserved = {}
               /\ Policy = "fcfs" => n.q.reservationCnt = q.reservationCnt
               /\ Policy # "fcfs" /\ n.q.active =>
                    /\ n.q.reservationCnt = 0 /\ (n.q.tryReserve <=> 0 < ReservationDepth)
                    /\ \E j : n.send = << [jobs |-> <<j>>, reserve |-> n.q.tryReserve] >>
<1>0. QInv(q) /\ Agreement
  BY DEF AInv, TInv, SInv, IInv
<1>1. CASE Policy = "fcfs"
  <2> DEFINE n == fcfs_run_sched_loop(q)
  <2>1. run_sched_loop(ok) = n
    BY <1>1 DEF run_sched_loop
  <2>2. /\ QInv(n.q) /\ Settles(q, n.q) /\ n.q.reserved = q.reserved
        /\ n.q.reservationCnt = q.reservationCnt
    BY <1>0, FcfsRunInv, FcfsRunEffect
  <2> HIDE DEF n
  <2> QED BY <1>0, <1>1, <2>1, <2>2 DEF Settles, Agreement
<1>2. CASE Policy # "fcfs"
  <2> DEFINE n == bf_run_sched_loop(q, ok)
  <2>1. run_sched_loop(ok) = n
    BY <1>2 DEF run_sched_loop
  <2>2. /\ QInv(n.q)
        /\ \/ \E x : QInv(x) /\ Opens(q, x) /\ Drives(x, n)
           \/ ~n.q.active /\ Settles(q, n.q) /\ n.q.reserved = {}
    BY <1>0, BackfillRunInv, BackfillRunEffect DEF Driven
  <2> HIDE DEF n
  <2>3. CASE \E x : QInv(x) /\ Opens(q, x) /\ Drives(x, n)
    <3>1. PICK x : QInv(x) /\ Opens(q, x) /\ Drives(x, n)
      BY <2>3
    <3>2. n.q.running = q.running /\ n.q.reserved = {}
      BY <3>1 DEF Opens, Drives, Settles
    <3>3. n.q.active =>
             /\ n.q.reservationCnt = 0 /\ (n.q.tryReserve <=> n.q.reservationCnt < ReservationDepth)
             /\ n.send = << [jobs |-> <<x.iter>>, reserve |-> n.q.tryReserve] >>
      BY <3>1 DEF Opens, Drives
    <3> QED BY <1>2, <2>1, <2>2, <3>2, <3>3
  <2>4. CASE ~n.q.active /\ Settles(q, n.q) /\ n.q.reserved = {}
    BY <1>2, <2>1, <2>2, <2>4 DEF Settles
  <2> QED BY <2>2, <2>3, <2>4
<1> QED BY <1>1, <1>2

\* A new loop has cancelled the reservations of the last one.
LEMMA CheckAgreement ==
    ASSUME AInv, check_watcher_cb
    PROVE  Agreement'
<1>0. SInv /\ IInv /\ QInv(q) /\ Agreement
  BY DEF AInv, TInv, SInv, IInv
<1>1. resps' = resps
  BY <1>0, CheckCases
<1>2. CASE UNCHANGED <<q, jm, est, rjobs, reqs>>
  BY <1>0, <1>1, <1>2, SameAgreement
<1>3. CASE post_sched_loop(q) /\ UNCHANGED <<rjobs, reqs>>
  BY <1>0, <1>1, <1>3, PostEffect, SameAgreement
<1>4. ASSUME NEW ok \in BOOLEAN, ~q.active, Frees(ok),
             \/ post_sched_loop(run_sched_loop(ok).q)
             \/ q' = run_sched_loop(ok).q
      PROVE  Agreement'
  <2>1. q'.running = q.running /\ q'.reserved = {}
    BY <1>4, RunHolders, PostEffect
  <2>2. \A i \in DOMAIN resps : resps[i].kind # "ok"
    BY <1>0, <1>4, InFlightPending
  <2>3. \A j \in Job : IF j \in q.reserved THEN rjobs'[j] \in {"NONE", "ERROR"}
                                           ELSE rjobs'[j] = rjobs[j]
    BY <1>0, <1>4 DEF Frees, Agreement
  <2>4. q.running \subseteq Job
    BY <1>0, Fields DEF QInv
  <2>5. \A j, s : ~InFlight(j, s)
    BY <2>2 DEF InFlight
  <2>6. \A i \in q'.running : rjobs'[i] \in {"ALLOCATED", "ALLOC_ERROR", "ERROR"}
    BY <1>0, <2>1, <2>3, <2>4 DEF Agreement
  <2>7. \A j \in Job : rjobs'[j] = "ALLOCATED" => j \in q'.running
    BY <1>0, <2>1, <2>3, <2>5 DEF Agreement
  <2>8. \A j \in Job : rjobs'[j] # "RESERVED"
    BY <1>0, <2>3, <2>5 DEF Agreement
  <2> QED BY <1>1, <2>1, <2>2, <2>6, <2>7, <2>8 DEF Agreement
<1> QED BY <1>0, <1>2, <1>3, <1>4, CheckCases

\* Every step keeps the agreement.
LEMMA NextAgreement ==
    ASSUME AInv, [Next]_vars
    PROVE  AInv'
<1>0. TInv /\ TInv' /\ SInv /\ IInv /\ Agreement
  BY NextTracks DEF AInv, TInv, SInv
<1>1. ASSUME Quiet PROVE Agreement'
  BY <1>0, <1>1, SameAgreement DEF Quiet, Calm, Settles
<1>2. ASSUME NEW j \in Job, NEW p \in Priority, jobmanager_alloc_cb(j, p) PROVE Agreement'
  BY <1>0, <1>2, AllocEffect, SameAgreement
<1>3. Agreement'
  BY <1>0, <1>1, <1>2, QuietSteps, FreeAgreement, ContAgreement, CheckAgreement,
     ServiceAgreement DEF Next
<1> QED BY <1>0, <1>3 DEF AInv

\* The agreement holds in every reachable state.
THEOREM AgreementInvariance == Spec => []AInv
<1>1. Init => AInv
  <2> SUFFICES ASSUME Init PROVE AInv
    OBVIOUS
  <2>1. resps = << >> /\ reqs = << >>
    BY DEF Init
  <2>2. TInv
    BY <2>1, InitInv, InitTracks DEF TInv, SInv, FcfsStream, RequestsFollow, ResponsesFollow
  <2>3. q.running \subseteq Job
    BY InitInv, Fields DEF IInv, TypeOK
  <2> QED BY <2>1, <2>2, <2>3, InitTracks DEF AInv, Agreement
<1>2. AInv /\ [Next]_vars => AInv'
  BY NextAgreement
<1> QED BY <1>1, <1>2, PTL DEF Spec

\* The resource module never keeps an allocation or a reservation the queue does
\* not know of, nor the queue one the resource module has dropped, up to responses
\* in flight and failed removals: whatever is freed partly, cancelled with an error
\* or matched while other callbacks run, no resource leaks.
THEOREM Holders == Spec => []ResourceAgreement
<1>1. AInv => ResourceAgreement
  <2> SUFFICES ASSUME AInv PROVE ResourceAgreement
    OBVIOUS
  <2>0. Agreement /\ TypeOK
    BY DEF AInv, TInv, SInv, IInv
  <2>1. q.running \subseteq Job
    BY <2>0, Fields DEF TypeOK
  <2>2. \A j \in Job : \A s : InFlight(j, s) => rjobs[j] = s
    BY <2>0 DEF Agreement, InFlight
  <2> QED BY <2>0, <2>1, <2>2 DEF Agreement, ResourceAgreement
<1> QED BY <1>1, AgreementInvariance, PTL

-----------------------------------------------------------------------------
\* The counter of an active loop is right, and it asks for a reservation, or has
\* one in flight, only while it may make one.
Reserving ==
    /\ Cardinality(q.reserved) <= ReservationDepth
    /\ Policy = "fcfs" => q.reservationCnt = 0
    /\ Policy # "fcfs" =>
          /\ q.active => /\ q.reservationCnt = Cardinality(q.reserved)
                         /\ q.tryReserve <=> q.reservationCnt < ReservationDepth
          /\ \A n \in DOMAIN reqs : reqs[n].reserve => q.tryReserve
          /\ \A i \in DOMAIN resps :
                resps[i].kind = "ok" /\ resps[i].status = "RESERVED" => q.tryReserve

\* The invariant with the reservations.
RInv == AInv /\ Reserving

\* Reserving survives a step that leaves the loop and the channels alone.
LEMMA SameReserving ==
    ASSUME Reserving, UNCHANGED <<reqs, resps>>, q'.reserved = q.reserved,
           q'.active = q.active, q'.reservationCnt = q.reservationCnt,
           q'.tryReserve = q.tryReserve
    PROVE  Reserving'
  BY DEF Reserving

\* A response: a reservation is counted, and was asked for because there was room.
LEMMA ContReserving ==
    ASSUME RInv, match_allocate_multi_cont
    PROVE  Reserving'
<1>0. /\ SInv /\ SInv' /\ IInv /\ TypeOK /\ QInv(q) /\ Agreement /\ Reserving /\ AInv
      /\ [Next]_vars
  <2>1. [Next]_vars
    BY DEF Next
  <2> QED BY <2>1, NextStream DEF RInv, AInv, TInv, SInv, IInv
<1>1. /\ q.reserved \subseteq Job /\ IsFiniteSet(q.reserved)
      /\ Cardinality(q.reserved) \in Nat /\ q.reservationCnt \in Nat
  <2>1. q.reserved \subseteq Job /\ q.reservationCnt \in Nat
    BY <1>0, Fields DEF TypeOK
  <2>2. IsFiniteSet(q.reserved)
    BY <2>1, BaseAssumption, FS_Subset
  <2> QED BY <2>1, <2>2, FS_CardinalityType
<1>2. CASE Policy = "fcfs"
  <2>1. CASE Starts(q, q')
    BY <1>0, <1>2, <2>1 DEF Starts, Reserving
  <2>2. CASE q'.reserved = q.reserved /\ q'.reservationCnt = 0
    BY <1>0, <1>2, <2>2 DEF Reserving
  <2> QED BY <1>0, <1>2, <2>1, <2>2, FcfsDecision
<1>3. CASE Policy # "fcfs"
  <2>0. resps # << >> /\ resps' = Tail(resps) /\ Channels'
    BY <1>0, <1>3, BackfillDecision DEF SInv, IInv
  <2> DEFINE M == Success \cup Failure
  <2>1. resps \in Seq(M)
    BY <1>0 DEF TypeOK
  <2> HIDE DEF M
  <2>2. /\ Len(resps) \in Nat /\ Len(resps) >= 1 /\ DOMAIN resps = 1..Len(resps)
        /\ DOMAIN Tail(resps) = 1..(Len(resps) - 1)
        /\ \A i \in 1..(Len(resps) - 1) : Tail(resps)[i] = resps[i + 1]
    BY <2>0, <2>1, HeadTail
  <2>3. CASE q' = q /\ reqs' = reqs
    <3>1. \A i \in DOMAIN resps' : i + 1 \in DOMAIN resps /\ resps'[i] = resps[i + 1]
      BY <2>0, <2>2
    <3> QED BY <1>0, <1>3, <2>3, <3>1 DEF Reserving
  <2>4. ASSUME NEW x, Continues(x), Cardinality(x.reserved) <= ReservationDepth,
               x.reservationCnt = Cardinality(x.reserved),
               \A i \in DOMAIN resps' : resps'[i] = EndOfStream
        PROVE  Reserving'
    <3>1. \A i \in DOMAIN resps' : resps'[i].kind # "ok"
      BY <2>4 DEF EndOfStream
    <3>2. q'.reserved = x.reserved
      BY <2>4 DEF Continues, Drives
    <3>3. CASE q'.active
      <4>1. /\ q'.reservationCnt = x.reservationCnt
            /\ q'.tryReserve <=> q'.reservationCnt < ReservationDepth
            /\ reqs' = << [jobs |-> <<x.iter>>, reserve |-> q'.tryReserve] >>
        BY <2>4, <3>3 DEF Continues, Drives
      <4>2. \A n \in DOMAIN reqs' : reqs'[n].reserve => q'.tryReserve
        <5> DEFINE y == [jobs |-> <<x.iter>>, reserve |-> q'.tryReserve]
        <5>1. reqs' = <<y>> /\ y.reserve = q'.tryReserve
          BY <4>1
        <5> HIDE DEF y
        <5>2. \A n \in DOMAIN reqs' : reqs'[n] = y
          BY <5>1
        <5> QED BY <5>1, <5>2
      <4> QED BY <1>3, <2>4, <3>1, <3>2, <4>1, <4>2 DEF Reserving
    <3>4. CASE ~q'.active
      <4>1. reqs' = << >>
        BY <2>0, <3>4 DEF Channels
      <4> QED BY <1>3, <2>4, <3>1, <3>2, <3>4, <4>1 DEF Reserving
    <3> QED BY <3>3, <3>4
  <2>5. CASE /\ q.active /\ resps[1].kind = "ok" /\ resps[1].job = q.iter
             /\ resps[1].status = "RESERVED"
             /\ \E x : Reserves(q, x) /\ Continues(x)
             /\ \A i \in DOMAIN resps' : resps'[i] = EndOfStream
    <3>1. PICK x : Reserves(q, x) /\ Continues(x)
      BY <2>5
    <3>2. /\ q.tryReserve /\ q.iter \notin q.reserved
          /\ q.reservationCnt = Cardinality(q.reserved) /\ q.reservationCnt < ReservationDepth
      BY <1>0, <1>3, <2>2, <2>5 DEF Reserving, Agreement
    <3>3. x.reserved = q.reserved \cup {q.iter} /\ x.reservationCnt = q.reservationCnt + 1
      BY <3>1 DEF Reserves
    <3>4. Cardinality(x.reserved) = Cardinality(q.reserved) + 1
      BY <1>1, <3>2, <3>3, FS_AddElement, ZenonT(60)
    <3>5. Cardinality(x.reserved) <= ReservationDepth /\ x.reservationCnt = Cardinality(x.reserved)
      BY <1>1, <3>2, <3>3, <3>4, BaseAssumption
    <3> QED BY <2>4, <2>5, <3>1, <3>5
  <2>6. CASE /\ q.active
             /\ \E x : (Starts(q, x) \/ Rejects(q, x) \/ Passes(q, x)) /\ Continues(x)
             /\ \A i \in DOMAIN resps' : resps'[i] = EndOfStream
    <3>1. PICK x : (Starts(q, x) \/ Rejects(q, x) \/ Passes(q, x)) /\ Continues(x)
      BY <2>6
    <3>2. x.reserved = q.reserved /\ x.reservationCnt = q.reservationCnt
      BY <3>1 DEF Starts, Rejects, Passes
    <3>3. /\ q.reservationCnt = Cardinality(q.reserved)
          /\ Cardinality(q.reserved) <= ReservationDepth
      BY <1>0, <1>3, <2>6 DEF Reserving
    <3> QED BY <2>4, <2>6, <3>1, <3>2, <3>3
  <2> QED BY <1>0, <1>3, <2>3, <2>5, <2>6, BackfillDecision
<1> QED BY <1>2, <1>3

\* A new loop starts counting at 0.
LEMMA CheckReserving ==
    ASSUME RInv, check_watcher_cb
    PROVE  Reserving'
<1>0. /\ SInv /\ IInv /\ IInv' /\ QInv(q) /\ Reserving /\ AInv
  BY CheckStep DEF RInv, AInv, TInv, SInv, IInv
<1>1. resps' = resps
  BY <1>0, CheckCases
<1>2. CASE UNCHANGED <<q, jm, est, rjobs, reqs>>
  BY <1>0, <1>1, <1>2, SameReserving
<1>3. CASE post_sched_loop(q) /\ UNCHANGED <<rjobs, reqs>>
  BY <1>0, <1>1, <1>3, PostEffect, SameReserving
<1>4. ASSUME NEW ok \in BOOLEAN, ~q.active, reqs' = run_sched_loop(ok).send,
             \/ post_sched_loop(run_sched_loop(ok).q)
             \/ q' = run_sched_loop(ok).q
      PROVE  Reserving'
  <2> DEFINE n == run_sched_loop(ok)
  <2>1. /\ QInv(n.q) /\ n.q.reserved = {}
        /\ Policy = "fcfs" => n.q.reservationCnt = q.reservationCnt
        /\ Policy # "fcfs" /\ n.q.active =>
              /\ n.q.reservationCnt = 0 /\ (n.q.tryReserve <=> 0 < ReservationDepth)
              /\ \E j : n.send = << [jobs |-> <<j>>, reserve |-> n.q.tryReserve] >>
    BY <1>0, <1>4, RunHolders
  <2>2. reqs' = n.send /\ (post_sched_loop(n.q) \/ q' = n.q)
    BY <1>4
  <2> HIDE DEF n
  <2>3. /\ q'.reserved = {} /\ q'.active = n.q.active
        /\ q'.reservationCnt = n.q.reservationCnt /\ q'.tryReserve = n.q.tryReserve
    BY <2>1, <2>2, PostEffect
  <2>4. Cardinality(q'.reserved) = 0 /\ 0 <= ReservationDepth
    BY <2>3, FS_EmptySet, BaseAssumption
  <2>5. CASE Policy = "fcfs"
    BY <1>0, <2>1, <2>3, <2>4, <2>5 DEF Reserving
  <2>6. CASE Policy # "fcfs"
    <3>1. \A i \in DOMAIN resps' : resps'[i].kind # "ok"
      BY <1>0, <1>1, <1>4, InFlightPending
    <3>2. CASE q'.active
      <4>1. PICK j : n.send = << [jobs |-> <<j>>, reserve |-> n.q.tryReserve] >>
        BY <2>1, <2>3, <2>6, <3>2
      <4>2. \A k \in DOMAIN reqs' : reqs'[k].reserve => q'.tryReserve
        <5> DEFINE y == [jobs |-> <<j>>, reserve |-> n.q.tryReserve]
        <5>1. reqs' = <<y>> /\ y.reserve = q'.tryReserve
          BY <2>2, <2>3, <4>1
        <5> HIDE DEF y
        <5>2. \A k \in DOMAIN reqs' : reqs'[k] = y
          BY <5>1
        <5> QED BY <5>1, <5>2
      <4> QED BY <2>1, <2>3, <2>4, <2>6, <3>1, <3>2, <4>2 DEF Reserving
    <3>3. CASE ~q'.active
      <4>1. reqs' = << >>
        BY <1>0, <3>3 DEF IInv, Channels
      <4> QED BY <2>4, <2>6, <3>1, <3>3, <4>1 DEF Reserving
    <3> QED BY <3>2, <3>3
  <2> QED BY <2>5, <2>6
<1> QED BY <1>0, <1>2, <1>3, <1>4, CheckCases

\* The resource module reserves only where a reservation was asked for.
LEMMA ServiceReserving ==
    ASSUME RInv, MatchService
    PROVE  Reserving'
<1>0. SInv /\ TypeOK /\ Channels /\ Reserving
  BY DEF RInv, AInv, TInv, SInv, IInv
<1> DEFINE M == Success \cup Failure
           R == [jobs : Seq(Job), reserve : BOOLEAN]
           req == Head(reqs)
<1>1. reqs # << >> /\ q' = q /\ reqs' = Tail(reqs)
  BY <1>0, ServiceAnswer
<1>2. PICK oks \in Seq(M), e \in Failure :
          resps' = resps \o oks \o <<e>> /\ Answers(req, oks, e)
  BY <1>0, ServiceAnswer
<1>3. e \in M /\ resps \in Seq(M) /\ reqs \in Seq(R)
  BY <1>0 DEF TypeOK
<1> HIDE DEF M, R
<1>4. /\ Len(resps) \in Nat /\ Len(oks) \in Nat
      /\ DOMAIN resps = 1..Len(resps)
      /\ DOMAIN resps' = 1..(Len(resps) + Len(oks) + 1)
      /\ \A i \in 1..Len(resps) : resps'[i] = resps[i]
      /\ \A i \in 1..Len(oks) : resps'[Len(resps) + i] = oks[i]
      /\ resps'[Len(resps) + Len(oks) + 1] = e
  <2>1. DOMAIN resps = 1..Len(resps)
    BY <1>3
  <2> QED BY <1>2, <1>3, <2>1, ConcatAppend
<1>5. /\ req = reqs[1] /\ 1 \in DOMAIN reqs
      /\ \A i \in DOMAIN reqs' : i + 1 \in DOMAIN reqs /\ reqs'[i] = reqs[i + 1]
  BY <1>1, <1>3, HeadTail
<1> HIDE DEF req
<1>6. /\ \A i \in 1..Len(oks) : oks[i].status = "RESERVED" => req.reserve
      /\ e.kind = "err"
  BY <1>2 DEF Answers
<1>7. CASE Policy = "fcfs"
  BY <1>0, <1>1, <1>7 DEF Reserving
<1>8. CASE Policy # "fcfs"
  <2>1. \A n \in DOMAIN reqs' : reqs'[n].reserve => q'.tryReserve
    BY <1>0, <1>1, <1>5, <1>8 DEF Reserving
  <2>2. ASSUME NEW i \in DOMAIN resps', resps'[i].kind = "ok", resps'[i].status = "RESERVED"
        PROVE  q'.tryReserve
    <3>1. CASE i \in 1..Len(resps)
      BY <1>0, <1>1, <1>4, <1>8, <2>2, <3>1 DEF Reserving
    <3>2. CASE i \in (Len(resps) + 1)..(Len(resps) + Len(oks))
      <4>1. i - Len(resps) \in 1..Len(oks) /\ i = Len(resps) + (i - Len(resps))
        BY <1>4, <3>2
      <4>2. resps'[i] = oks[i - Len(resps)]
        BY <1>4, <4>1
      <4>3. req.reserve
        BY <1>6, <2>2, <4>1, <4>2
      <4> QED BY <1>0, <1>1, <1>5, <1>8, <4>3 DEF Reserving
    <3>3. CASE i = Len(resps) + Len(oks) + 1
      BY <1>4, <1>6, <2>2, <3>3
    <3> QED BY <1>4, <3>1, <3>2, <3>3
  <2> QED BY <1>0, <1>1, <1>8, <2>1, <2>2 DEF Reserving
<1> QED BY <1>7, <1>8

\* Every step keeps the count.
LEMMA NextReserving ==
    ASSUME RInv, [Next]_vars
    PROVE  RInv'
<1>0. AInv /\ AInv' /\ SInv /\ IInv /\ Reserving /\ Tracks(q, jm, est)
  BY NextAgreement DEF RInv, AInv, TInv, SInv
<1>1. ASSUME Quiet PROVE Reserving'
  BY <1>0, <1>1, SameReserving DEF Quiet, Calm
<1>2. ASSUME NEW j \in Job, NEW p \in Priority, jobmanager_alloc_cb(j, p) PROVE Reserving'
  BY <1>0, <1>2, AllocEffect, SameReserving
<1>3. ASSUME NEW j \in Job, NEW final \in BOOLEAN, jobmanager_free_cb(j, final) PROVE Reserving'
  <2>1. jm[j] = "alloced"
    BY <1>3 DEF jobmanager_free_cb
  <2>2. q.state[j] # "PENDING"
    BY <1>0, <2>1 DEF Tracks
  <2> QED BY <1>0, <1>3, <2>2, FreeEffect, SameReserving
<1>4. Reserving'
  BY <1>0, <1>1, <1>2, <1>3, QuietSteps, ContReserving, CheckReserving,
     ServiceReserving DEF Next
<1> QED BY <1>0, <1>4 DEF RInv

\* The count holds in every reachable state.
THEOREM ReservingInvariance == Spec => []RInv
<1>1. Init => RInv
  <2> SUFFICES ASSUME Init PROVE RInv
    OBVIOUS
  <2>1. resps = << >> /\ reqs = << >>
    BY DEF Init
  <2>2. TInv
    BY <2>1, InitInv, InitTracks DEF TInv, SInv, FcfsStream, RequestsFollow, ResponsesFollow
  <2>3. q.running \subseteq Job
    BY InitInv, Fields DEF IInv, TypeOK
  <2>4. AInv
    BY <2>1, <2>2, <2>3, InitTracks DEF AInv, Agreement
  <2>5. Reserving
    BY <2>1, InitTracks, FS_EmptySet, BaseAssumption DEF Reserving
  <2> QED BY <2>4, <2>5 DEF RInv
<1>2. RInv /\ [Next]_vars => RInv'
  BY NextReserving
<1> QED BY <1>1, <1>2, PTL DEF Spec

\* A loop never holds more reservations than its policy allows, for every
\* reservation depth, and counts them correctly while resources, cancellations and
\* frees interrupt it.
THEOREM Reservations == Spec => []ReservationBound
<1>1. RInv => ReservationBound
  <2> SUFFICES ASSUME RInv PROVE ReservationBound
    OBVIOUS
  <2>1. Reserving /\ Agreement
    BY DEF RInv, AInv
  <2>2. Policy = "fcfs" => Cardinality(q.reserved) = 0
    BY <2>1, FS_EmptySet DEF Agreement
  <2> QED BY <2>1, <2>2 DEF Reserving, ReservationBound
<1> QED BY <1>1, ReservingInvariance, PTL


(***************************************************************************)
(* Loops and their order: nothing that was deferred outlives its loop      *)
(* (DeferredDrained), a job that waits for the next loop gets one          *)
(* (NoLostWakeup), and no job starts past another one against the policy   *)
(* (FcfsOrder, BackfillOrder).                                             *)
(***************************************************************************)
\* What the loops leave for each other.  A policy that reserves may lose a wakeup
\* when a reservation cannot be cancelled: run_sched_loop then returns after it has
\* cleared m_schedulable.
Handover ==
    /\ Policy # "fcfs" => Deferring(q)
    /\ Policy = "fcfs" \/ ~RemoveMayFail => Wakes(q)

\* The invariant with what is handed over.
HInv == RInv /\ Handover

\* A response of the resource module.
LEMMA ContHandover ==
    ASSUME HInv, match_allocate_multi_cont
    PROVE  Handover'
<1>0. SInv /\ IInv /\ Handover
  BY DEF HInv, RInv, AInv, TInv, SInv
<1>1. CASE Policy = "fcfs"
  <2>1. Wakes(q) => Wakes(q')
    BY <1>0, <1>1, FcfsDecision DEF Starts, Moves
  <2> QED BY <1>0, <1>1, <2>1 DEF Handover
<1>2. CASE Policy # "fcfs"
  <2>1. CASE q' = q
    BY <1>0, <2>1 DEF Handover
  <2>2. CASE \E x : Moves(q, x) /\ Continues(x)
    <3>1. PICK x : Moves(q, x) /\ Continues(x)
      BY <2>2
    <3>2. /\ Deferring(q) => Known(x) /\ Ripe(x)
          /\ Wakes(q) => Wakes(x)
      BY <3>1 DEF Moves
    <3>3. /\ Known(x) /\ Ripe(x) => Deferring(q')
          /\ Wakes(x) => Wakes(q')
      BY <3>1 DEF Continues, Drives
    <3> QED BY <1>0, <1>2, <3>2, <3>3 DEF Handover
  <2>3. (\E x : (Starts(q, x) \/ Rejects(q, x) \/ Reserves(q, x) \/ Passes(q, x)) /\ Continues(x))
           => \E x : Moves(q, x) /\ Continues(x)
    BY DEF Starts, Rejects, Reserves, Passes
  <2> QED BY <1>0, <1>2, <2>1, <2>2, <2>3, BackfillDecision
<1> QED BY <1>1, <1>2

\* The check watcher: a loop that opens takes over m_pending_provisional, and a
\* loop that ends has carried out what was deferred.
LEMMA CheckHandover ==
    ASSUME HInv, check_watcher_cb
    PROVE  Handover'
<1>0. SInv /\ IInv /\ QInv(q) /\ Agreement /\ Handover /\ AInv
  BY DEF HInv, RInv, AInv, TInv, SInv, IInv
<1>1. CASE q' = q
  BY <1>0, <1>1 DEF Handover
<1>2. CASE post_sched_loop(q)
  BY <1>0, <1>2, PostEffect DEF Handover
<1>3. ASSUME NEW ok \in BOOLEAN, ~q.active, Frees(ok),
             \/ ok /\ post_sched_loop(run_sched_loop(ok).q)
             \/ ~ok /\ q' = run_sched_loop(ok).q
      PROVE  Handover'
  <2> DEFINE r == run_sched_loop(ok).q
  <2>1. CASE Policy = "fcfs"
    <3>1. ok
      BY <1>0, <1>3, <2>1 DEF Agreement, Frees
    <3>2. r = fcfs_run_sched_loop(q).q
      BY <2>1 DEF run_sched_loop
    <3>3. QInv(r) /\ Wakes(r)
      BY <1>0, <1>3, <3>2, FcfsRunInv, FcfsRunEffect
    <3>4. post_sched_loop(r)
      BY <1>3, <3>1
    <3> HIDE DEF r
    <3>5. Wakes(q')
      BY <3>3, <3>4, PostEffect
    <3> QED BY <2>1, <3>5 DEF Handover
  <2>2. CASE Policy # "fcfs"
    <3> DEFINE n == bf_run_sched_loop(q, ok)
    <3>1. run_sched_loop(ok) = n
      BY <2>2 DEF run_sched_loop
    <3>2. /\ QInv(n.q)
          /\ \/ ok /\ \E x : QInv(x) /\ Opens(q, x) /\ Drives(x, n)
             \/ ~ok /\ (Deferring(q) => Deferring(n.q))
      BY <1>0, <1>3, BackfillRunInv, BackfillRunEffect DEF Driven
    <3>3. r = n.q
      BY <3>1
    <3>4. ~RemoveMayFail => ok
      BY <1>0, <1>3 DEF Frees, Agreement
    <3> HIDE DEF n, r
    <3>5. Deferring(r) /\ (~RemoveMayFail => Wakes(r))
      <4>1. Deferring(q)
        BY <1>0, <2>2 DEF Handover
      <4>2. CASE ok /\ \E x : QInv(x) /\ Opens(q, x) /\ Drives(x, n)
        BY <3>3, <4>1, <4>2 DEF Opens, Drives
      <4>3. CASE ~ok /\ (Deferring(q) => Deferring(n.q))
        BY <3>3, <3>4, <4>1, <4>3
      <4> QED BY <3>2, <4>2, <4>3
    <3>6. post_sched_loop(r) \/ q' = r
      BY <1>3 DEF r
    <3>7. Deferring(q') /\ (Wakes(r) => Wakes(q'))
      BY <3>2, <3>3, <3>5, <3>6, PostEffect
    <3> QED BY <2>2, <3>5, <3>7 DEF Handover
  <2> QED BY <2>1, <2>2
<1> QED BY <1>0, <1>1, <1>2, <1>3, CheckCases

\* Every step keeps what is handed over.
LEMMA NextHandover ==
    ASSUME HInv, [Next]_vars
    PROVE  HInv'
<1>0. RInv /\ RInv' /\ SInv /\ IInv /\ Handover /\ Tracks(q, jm, est)
  BY NextReserving DEF HInv, RInv, AInv, TInv, SInv
<1>1. ASSUME Quiet PROVE Handover'
  BY <1>0, <1>1 DEF Quiet, Calm, Handover
<1>2. ASSUME NEW j \in Job, NEW p \in Priority, jobmanager_alloc_cb(j, p) PROVE Handover'
  BY <1>0, <1>2, AllocEffect DEF Handover
<1>3. ASSUME NEW j \in Job, NEW final \in BOOLEAN, jobmanager_free_cb(j, final) PROVE Handover'
  <2>1. jm[j] = "alloced"
    BY <1>3 DEF jobmanager_free_cb
  <2>2. q.state[j] # "PENDING"
    BY <1>0, <2>1 DEF Tracks
  <2>3. \/ q' = q
        \/ (Wakes(q) => Wakes(q')) /\ (Deferring(q) => Deferring(q'))
    BY <1>0, <1>3, <2>2, FreeEffect
  <2> QED BY <1>0, <2>3 DEF Handover
<1>4. MatchService => q' = q
  BY DEF MatchService
<1>5. Handover'
  BY <1>0, <1>1, <1>2, <1>3, <1>4, QuietSteps, ContHandover, CheckHandover DEF Next, Handover
<1> QED BY <1>0, <1>5 DEF HInv

\* What the invariants so far say of the initial states.
LEMMA InitHandover ==
    ASSUME Init
    PROVE  HInv
<1>1. resps = << >> /\ reqs = << >>
  BY DEF Init
<1>2. TInv
  BY <1>1, InitInv, InitTracks DEF TInv, SInv, FcfsStream, RequestsFollow, ResponsesFollow
<1>3. q.running \subseteq Job
  BY InitInv, Fields DEF IInv, TypeOK
<1>4. AInv
  BY <1>1, <1>2, <1>3, InitTracks DEF AInv, Agreement
<1>5. Reserving
  BY <1>1, InitTracks, FS_EmptySet, BaseAssumption DEF Reserving
<1> QED BY <1>4, <1>5, InitTracks DEF HInv, RInv, Handover

\* What the loops leave for each other is right in every reachable state.
THEOREM HandoverInvariance == Spec => []HInv
<1>1. Init => HInv
  BY InitHandover
<1>2. HInv /\ [Next]_vars => HInv'
  BY NextHandover
<1> QED BY <1>1, <1>2, PTL DEF Spec

\* Under a backfill policy no cancellation, priority change or resource event that
\* was put off because of an active loop is left behind when the loop is over.
\* Under fcfs it is not so: a cancellation that is deferred while the loop starts
\* its job, and whose job is freed before the loop ends, stays in the list.
THEOREM DeferredRequests ==
    ASSUME Policy # "fcfs"
    PROVE  Spec => []DeferredDrained
<1>1. HInv => DeferredDrained
  BY DEF HInv, Handover, Deferring, Drained, DeferredDrained
<1> QED BY <1>1, HandoverInvariance, PTL

\* A job in m_pending_provisional keeps the queue schedulable, so that the check
\* watcher starts the loop that merges it, unless a reservation could not be
\* cancelled.
THEOREM Wakeups ==
    ASSUME Policy = "fcfs" \/ ~RemoveMayFail
    PROVE  Spec => []NoLostWakeup
<1>1. HInv => NoLostWakeup
  BY DEF HInv, Handover, Wakes, NoLostWakeup
<1> QED BY <1>1, HandoverInvariance, PTL

-----------------------------------------------------------------------------
\* The pending jobs a queue has passed over all hold a reservation, or its loop
\* may not make another one.
Passed(r) ==
    r.active /\ r.iter # Nil =>
        \/ r.reservationCnt = ReservationDepth
        \/ \A e \in r.pending : Before(e, get_key(r, r.iter)) => e.id \in r.reserved

Overtaken == Policy # "fcfs" => Passed(q)

\* The invariant with the jobs that were passed over.
OInv == HInv /\ Overtaken

\* A queue with the same loop has passed over the same jobs.
LEMMA SamePassed ==
    ASSUME NEW r, QInv(r), NEW s, QInv(s), Passed(r),
           s.active => /\ r.active /\ s.iter = r.iter /\ s.pending = r.pending
                       /\ s.reserved = r.reserved /\ s.reservationCnt = r.reservationCnt
    PROVE  Passed(s)
<1> SUFFICES ASSUME s.active, s.iter # Nil
             PROVE  \/ s.reservationCnt = ReservationDepth
                    \/ \A e \in s.pending : Before(e, get_key(s, s.iter)) => e.id \in s.reserved
  BY DEF Passed
<1>1. /\ get_key(r, r.iter) \in r.pending /\ get_key(s, s.iter) \in r.pending
      /\ get_key(r, r.iter).id = s.iter /\ get_key(s, s.iter).id = s.iter
  BY DEF QInv, Cursor, get_key
<1>2. get_key(r, r.iter) = get_key(s, s.iter)
  BY <1>1, KeysDistinct
<1> QED BY <1>2 DEF Passed

\* A decision passes over the iterator's job with a reservation, without one when
\* none may be made, or takes the job out of m_pending.
LEMMA DecidesPassed ==
    ASSUME NEW r, QInv(r), r.active, r.iter # Nil, NEW x, QInv(x), Passed(r),
           r.reservationCnt <= ReservationDepth, r.reservationCnt \in Nat,
           r.tryReserve <=> r.reservationCnt < ReservationDepth,
           \/ Starts(r, x) \/ Rejects(r, x) \/ Passes(r, x)
           \/ Reserves(r, x) /\ r.tryReserve
    PROVE  Passed(x)
<1> SUFFICES ASSUME x.iter # Nil, x.reservationCnt # ReservationDepth,
                    NEW e \in x.pending, Before(e, get_key(x, x.iter))
             PROVE  e.id \in x.reserved
  BY DEF Passed
<1>1. Moves(r, x) /\ x.pending \subseteq r.pending
  BY DEF Starts, Rejects, Passes, Reserves
<1>2. r.reservationCnt # ReservationDepth
  BY BaseAssumption DEF Starts, Rejects, Passes, Reserves
<1>3. r.tryReserve
  BY <1>2, BaseAssumption
<1>4. r.reserved \subseteq x.reserved
  BY DEF Starts, Rejects, Passes, Reserves
<1>5. CASE e.id # r.iter
  <2>1. Before(e, get_key(r, r.iter))
    BY <1>1, <1>5, NextPassed
  <2> QED BY <1>1, <1>2, <1>4, <2>1 DEF Passed
<1>6. CASE e.id = r.iter
  <2>1. e = get_key(r, r.iter)
    BY <1>1, <1>6, KeysDistinct
  <2>2. Reserves(r, x)
    BY <1>3, <2>1 DEF Starts, Rejects, Passes
  <2> QED BY <1>6, <2>2 DEF Reserves
<1> QED BY <1>5, <1>6

\* A response of the resource module.
LEMMA ContPassed ==
    ASSUME OInv, match_allocate_multi_cont, Policy # "fcfs", QInv(q')
    PROVE  Passed(q')
<1>0. SInv /\ IInv /\ TypeOK /\ QInv(q) /\ Reserving /\ Passed(q)
  BY DEF OInv, Overtaken, HInv, RInv, AInv, TInv, SInv, IInv
<1>1. CASE q' = q
  BY <1>0, <1>1
<1>2. CASE /\ q.active /\ q.iter # Nil
           /\ \E x : /\ Continues(x)
                     /\ \/ Starts(q, x) \/ Rejects(q, x) \/ Passes(q, x)
                        \/ Reserves(q, x) /\ q.tryReserve
  <2>1. PICK x : /\ Continues(x)
                 /\ \/ Starts(q, x) \/ Rejects(q, x) \/ Passes(q, x)
                    \/ Reserves(q, x) /\ q.tryReserve
    BY <1>2
  <2>2. /\ q.reservationCnt <= ReservationDepth /\ q.reservationCnt \in Nat
        /\ q.tryReserve <=> q.reservationCnt < ReservationDepth
    <3>1. q.reservationCnt \in Nat
      BY <1>0, Fields DEF TypeOK
    <3> QED BY <1>0, <1>2, <3>1 DEF Reserving
  <2>3. QInv(x) /\ Drives(x, [q |-> q', send |-> reqs'])
    BY <2>1 DEF Continues
  <2>4. Passed(x) /\ x.active
    BY <1>0, <1>2, <2>1, <2>2, <2>3, DecidesPassed DEF Starts, Rejects, Passes, Reserves, Moves
  <2>5. q'.active => /\ q'.iter = x.iter /\ q'.pending = x.pending
                     /\ q'.reserved = x.reserved /\ q'.reservationCnt = x.reservationCnt
    BY <2>3 DEF Drives
  <2> QED BY <2>3, <2>4, <2>5, SamePassed
<1>3. ASSUME resps # << >>, resps[1].kind = "ok", resps[1].status = "RESERVED"
      PROVE  q.tryReserve
  <2> DEFINE M == Success \cup Failure
  <2>1. resps \in Seq(M)
    BY <1>0 DEF TypeOK
  <2> HIDE DEF M
  <2>2. 1 \in DOMAIN resps
    BY <1>3, <2>1, HeadTail
  <2> QED BY <1>0, <1>3, <2>2 DEF Reserving
<1> QED BY <1>0, <1>1, <1>2, <1>3, BackfillDecision

\* A loop begins at the first job of m_pending, which passes over nobody.
LEMMA CheckPassed ==
    ASSUME OInv, check_watcher_cb, Policy # "fcfs", QInv(q')
    PROVE  Passed(q')
<1>0. SInv /\ IInv /\ QInv(q) /\ Passed(q)
  BY DEF OInv, Overtaken, HInv, RInv, AInv, TInv, SInv, IInv
<1>1. CASE q' = q
  BY <1>0, <1>1
<1>2. ASSUME NEW r, QInv(r), Passed(r), post_sched_loop(r) \/ q' = r PROVE Passed(q')
  <2>1. /\ q'.active = r.active /\ q'.iter = r.iter /\ q'.pending = r.pending
        /\ q'.reserved = r.reserved /\ q'.reservationCnt = r.reservationCnt
    BY <1>2, PostEffect
  <2> QED BY <1>2, <2>1, SamePassed
<1>3. ASSUME NEW ok \in BOOLEAN, ~q.active,
             post_sched_loop(run_sched_loop(ok).q) \/ q' = run_sched_loop(ok).q
      PROVE  Passed(q')
  <2> DEFINE n == bf_run_sched_loop(q, ok)
  <2>1. run_sched_loop(ok) = n
    BY DEF run_sched_loop
  <2>2. /\ QInv(n.q)
        /\ \/ \E x : QInv(x) /\ Opens(q, x) /\ Drives(x, n)
           \/ ~n.q.active
    BY <1>0, <1>3, BackfillRunInv, BackfillRunEffect DEF Driven
  <2>3. post_sched_loop(n.q) \/ q' = n.q
    BY <1>3, <2>1
  <2> HIDE DEF n
  <2>4. CASE ~n.q.active
    BY <1>2, <2>2, <2>3, <2>4 DEF Passed
  <2>5. CASE \E x : QInv(x) /\ Opens(q, x) /\ Drives(x, n)
    <3>1. PICK x : QInv(x) /\ Opens(q, x) /\ Drives(x, n)
      BY <2>5
    <3>2. Passed(x)
      <4> SUFFICES ASSUME x.iter # Nil, NEW e \in x.pending, Before(e, get_key(x, x.iter))
                   PROVE  FALSE
        BY DEF Passed
      <4>1. x.iter = BeginOf(x.pending)
        BY <3>1 DEF Opens
      <4>2. PICK f \in x.pending : f.id = x.iter /\ \A g \in x.pending : g = f \/ Before(f, g)
        BY <4>1, BeginIn
      <4>3. f = get_key(x, x.iter)
        BY <3>1, <4>2, KeysDistinct
      <4>4. e \in Entry /\ f \in Entry
        BY <3>1, Fields DEF QInv
      <4> QED BY <4>2, <4>3, <4>4, Order
    <3>3. Passed(n.q)
      BY <2>2, <3>1, <3>2, SamePassed DEF Drives, Opens
    <3> QED BY <1>2, <2>2, <2>3, <3>3
  <2> QED BY <2>2, <2>4, <2>5
<1> QED BY <1>0, <1>1, <1>2, <1>3, CheckCases

\* Every step keeps track of who was passed over.
LEMMA NextPassedOver ==
    ASSUME OInv, [Next]_vars
    PROVE  OInv'
<1>0. /\ HInv /\ HInv' /\ IInv /\ QInv(q) /\ QInv(q') /\ Tracks(q, jm, est)
  BY NextHandover DEF OInv, HInv, RInv, AInv, TInv, SInv, IInv
<1> SUFFICES ASSUME Policy # "fcfs" PROVE Passed(q')
  BY <1>0 DEF OInv, Overtaken
<1>1. Passed(q)
  BY DEF OInv, Overtaken
<1>2. ASSUME Undisturbed(q, q'), q'.reserved = q.reserved,
             q'.reservationCnt = q.reservationCnt
      PROVE  Passed(q')
  BY <1>0, <1>1, <1>2, SamePassed DEF Undisturbed
<1>3. ASSUME Quiet PROVE Passed(q')
  BY <1>2, <1>3 DEF Quiet, Calm
<1>4. ASSUME NEW j \in Job, NEW p \in Priority, jobmanager_alloc_cb(j, p) PROVE Passed(q')
  BY <1>0, <1>2, <1>4, AllocEffect
<1>5. ASSUME NEW j \in Job, NEW final \in BOOLEAN, jobmanager_free_cb(j, final) PROVE Passed(q')
  <2>1. jm[j] = "alloced"
    BY <1>5 DEF jobmanager_free_cb
  <2>2. q.state[j] # "PENDING"
    BY <1>0, <2>1 DEF Tracks
  <2> QED BY <1>0, <1>2, <1>5, <2>2, FreeEffect
<1>6. MatchService => q' = q
  BY DEF MatchService
<1> QED BY <1>0, <1>1, <1>3, <1>4, <1>5, <1>6, QuietSteps, ContPassed, CheckPassed DEF Next

\* Only a response starts a job, and the job it starts is the iterator's.
LEMMA OnlyTheIteratorStarts ==
    ASSUME OInv, [Next]_vars, NEW j \in Started
    PROVE  q.active /\ q.iter # Nil /\ j = q.iter
<1>0. SInv /\ IInv /\ QInv(q) /\ Tracks(q, jm, est)
  BY DEF OInv, HInv, RInv, AInv, TInv, SInv, IInv
<1>1. j \in q'.alloced /\ j \notin q.alloced
  BY DEF Started
<1>2. ASSUME Quiet PROVE FALSE
  BY <1>1, <1>2 DEF Quiet, Calm, Settles
<1>3. ASSUME NEW i \in Job, NEW p \in Priority, jobmanager_alloc_cb(i, p) PROVE FALSE
  BY <1>0, <1>1, <1>3, AllocEffect
<1>4. ASSUME NEW i \in Job, NEW final \in BOOLEAN, jobmanager_free_cb(i, final) PROVE FALSE
  <2>1. jm[i] = "alloced"
    BY <1>4 DEF jobmanager_free_cb
  <2>2. q.state[i] # "PENDING"
    BY <1>0, <2>1 DEF Tracks
  <2>3. q'.alloced \subseteq q.alloced
    BY <1>0, <1>4, <2>2, FreeEffect
  <2> QED BY <1>1, <2>3
<1>5. ASSUME check_watcher_cb PROVE FALSE
  <2>1. CASE q' = q
    BY <1>1, <2>1
  <2>2. ASSUME NEW r, QInv(r), post_sched_loop(r) PROVE FALSE
    BY <1>1, <2>2, PostEffect
  <2>3. ASSUME NEW ok \in BOOLEAN, ~q.active,
               post_sched_loop(run_sched_loop(ok).q) \/ q' = run_sched_loop(ok).q
        PROVE  FALSE
    <3> DEFINE r == run_sched_loop(ok).q
    <3>1. QInv(r) /\ Settles(q, r)
      <4>1. CASE Policy = "fcfs"
        <5>1. r = fcfs_run_sched_loop(q).q
          BY <4>1 DEF run_sched_loop
        <5> QED BY <1>0, <2>3, <5>1, FcfsRunInv, FcfsRunEffect
      <4>2. CASE Policy # "fcfs"
        <5> DEFINE n == bf_run_sched_loop(q, ok)
        <5>1. r = n.q
          BY <4>2 DEF run_sched_loop
        <5>2. /\ QInv(n.q)
              /\ Settles(q, n.q) \/ \E x : QInv(x) /\ Opens(q, x) /\ Drives(x, n)
          BY <1>0, <2>3, BackfillRunInv, BackfillRunEffect DEF Driven
        <5> HIDE DEF n, r
        <5>3. Settles(q, n.q)
          BY <5>2, Composes DEF Opens, Drives
        <5> QED BY <5>1, <5>2, <5>3
      <4> QED BY <4>1, <4>2
    <3>2. post_sched_loop(r) \/ q' = r
      BY <2>3
    <3> HIDE DEF r
    <3> QED BY <1>1, <2>2, <3>1, <3>2 DEF Settles
  <2> QED BY <1>0, <1>5, <2>1, <2>2, <2>3, CheckCases
<1>6. ASSUME match_allocate_multi_cont PROVE q.active /\ q.iter # Nil /\ j = q.iter
  <2>1. CASE Policy = "fcfs"
    <3>1. CASE q.active /\ q.iter # Nil /\ Starts(q, q')
      BY <1>1, <3>1 DEF Starts
    <3>2. CASE \E x : (x = q \/ (q.iter # Nil /\ Rejects(q, x))) /\ Settles(x, q')
      BY <1>1, <3>2 DEF Rejects, Settles
    <3> QED BY <1>0, <1>6, <2>1, <3>1, <3>2, FcfsDecision
  <2>2. CASE Policy # "fcfs"
    <3>1. CASE q' = q
      BY <1>1, <3>1
    <3>2. CASE /\ q.active /\ q.iter # Nil
               /\ \E x : /\ Starts(q, x) \/ Rejects(q, x) \/ Reserves(q, x) \/ Passes(q, x)
                         /\ Continues(x)
      <4>1. q'.alloced \subseteq q.alloced \cup {q.iter}
        BY <3>2 DEF Continues, Drives, Settles, Starts, Rejects, Reserves, Passes
      <4> QED BY <1>1, <3>2, <4>1
    <3> QED BY <1>0, <1>6, <2>2, <3>1, <3>2, BackfillDecision
  <2> QED BY <2>1, <2>2
<1>7. MatchService => FALSE
  BY <1>1 DEF MatchService
<1> QED BY <1>0, <1>2, <1>3, <1>4, <1>5, <1>6, <1>7, QuietSteps DEF Next

\* The jobs ahead of the iterator's are those before its key.
LEMMA AheadOfIterator ==
    ASSUME QInv(q), q.iter # Nil, NEW i \in Ahead(q.iter)
    PROVE  \E e \in q.pending : e.id = i /\ Before(e, get_key(q, q.iter))
<1>1. PICK e \in q.pending, g \in q.pending : e.id = i /\ g.id = q.iter /\ Before(e, g)
  BY DEF Ahead
<1>2. g = get_key(q, q.iter)
  BY <1>1, KeysDistinct
<1> QED BY <1>1, <1>2

\* Under fcfs nobody is ahead of the iterator's job, which is the first.
LEMMA FcfsStarts ==
    ASSUME OInv, [Next]_vars, Policy = "fcfs", NEW j \in Started
    PROVE  Ahead(j) = {}
<1>0. QInv(q)
  BY DEF OInv, HInv, RInv, AInv, TInv, SInv, IInv
<1>1. q.active /\ q.iter # Nil /\ j = q.iter
  BY OnlyTheIteratorStarts
<1> SUFFICES ASSUME NEW i \in Ahead(q.iter) PROVE FALSE
  BY <1>1
<1>2. q.iter = BeginOf(q.pending)
  BY <1>0, <1>1 DEF QInv, Cursor
<1>3. PICK f \in q.pending : f.id = q.iter /\ \A g \in q.pending : g = f \/ Before(f, g)
  BY <1>1, <1>2, BeginIn
<1>4. PICK e \in q.pending : Before(e, get_key(q, q.iter))
  BY <1>0, <1>1, AheadOfIterator
<1>5. f = get_key(q, q.iter)
  BY <1>0, <1>3, KeysDistinct
<1>6. e \in Entry /\ f \in Entry
  BY <1>0, Fields DEF QInv
<1> QED BY <1>3, <1>4, <1>5, <1>6, Order

\* Who was passed over is known in every reachable state.
THEOREM PassedInvariance == Spec => []OInv
<1>1. Init => OInv
  BY InitHandover, InitTracks DEF OInv, Overtaken, Passed
<1>2. OInv /\ [Next]_vars => OInv'
  BY NextPassedOver
<1> QED BY <1>1, <1>2, PTL DEF Spec

\* fcfs never starts a job past one that is ahead of it in m_pending, however
\* priorities change, jobs are canceled and responses are delayed.
THEOREM FirstComeFirstServed ==
    ASSUME Policy = "fcfs"
    PROVE  Spec => FcfsOrder
<1>1. OInv /\ [Next]_vars => [\A j \in Started : Ahead(j) = {}]_vars
  BY FcfsStarts
<1> QED BY <1>1, PassedInvariance, PTL DEF Spec, FcfsOrder

\* Under every policy and every reservation depth, a job is started only past jobs
\* that hold a reservation, or when the loop had used up its reservations.
THEOREM BackfillKeepsOrder == Spec => BackfillOrder
<1>1. ASSUME OInv, [Next]_vars, NEW j \in Started
      PROVE  Ahead(j) \subseteq q.reserved \/ q.reservationCnt = ReservationDepth
  <2>0. QInv(q)
    BY <1>1 DEF OInv, HInv, RInv, AInv, TInv, SInv, IInv
  <2>1. CASE Policy = "fcfs"
    BY <1>1, <2>1, FcfsStarts
  <2>2. CASE Policy # "fcfs"
    <3>1. q.active /\ q.iter # Nil /\ j = q.iter
      BY <1>1, OnlyTheIteratorStarts
    <3>2. Passed(q)
      BY <1>1, <2>2 DEF OInv, Overtaken
    <3>3. \A i \in Ahead(j) : \E e \in q.pending : e.id = i /\ Before(e, get_key(q, q.iter))
      BY <2>0, <3>1, AheadOfIterator
    <3> QED BY <3>1, <3>2, <3>3 DEF Passed
  <2> QED BY <2>1, <2>2
<1>2. OInv /\ [Next]_vars =>
          [\A j \in Started : Ahead(j) \subseteq q.reserved \/ q.reservationCnt = ReservationDepth]_vars
  BY <1>1
<1> QED BY <1>2, PassedInvariance, PTL DEF Spec, BackfillOrder

=============================================================================
