---------------------------- MODULE QmanagerSteps ----------------------------
(***************************************************************************)
(* What each callback of the queue manager does, said in terms of what the *)
(* methods of the queue do (QueuePolicyProofs); and the order in which    *)
(* the responses of an fcfs stream arrive, from which every verdict is     *)
(* known to be about the iterator's job.                                   *)
(***************************************************************************)
EXTENDS QmanagerProofs

\* A callback that leaves the job manager, the resource module and the channels
\* alone, and the queue calm.
Quiet ==
    /\ Calm(q, q') /\ Undisturbed(q, q')
    /\ Policy # "fcfs" /\ Deferring(q) => Deferring(q')
    /\ UNCHANGED <<jm, est, rjobs, reqs, resps>>

\* The requests of the job manager about pending jobs, resource events and the
\* prepare watcher are quiet.
LEMMA QuietSteps ==
    ASSUME IInv,
           \/ \E j \in Job : jobmanager_cancel_cb(j)
           \/ \E j \in Job, p \in Priority : jobmanager_prioritize_cb(j, p)
           \/ update_on_resource_response
           \/ prep_watcher_cb
           \/ UNCHANGED vars
    PROVE  Quiet
<1>0. QInv(q)
  BY DEF IInv
<1>1. ASSUME NEW j \in Job, jobmanager_cancel_cb(j) PROVE Quiet
  <2>1. /\ q.state[j] = "PENDING" /\ q' = remove_pending(q, j)
        /\ UNCHANGED <<jm, est, rjobs, reqs, resps>>
    BY <1>1 DEF jobmanager_cancel_cb, resource
  <2>2. Undisturbed(q, q')
    BY <1>0, <2>1, RemovePendingInv
  <2> QED BY <1>0, <2>1, <2>2, RemovePendingCalm DEF Quiet
<1>2. ASSUME NEW j \in Job, NEW p \in Priority, jobmanager_prioritize_cb(j, p) PROVE Quiet
  <2>1. /\ q.state[j] = "PENDING" /\ q' = pending_reprioritize(q, j, calc_priority(p))
        /\ UNCHANGED <<jm, est, rjobs, reqs, resps>>
    BY <1>2 DEF jobmanager_prioritize_cb, resource
  <2>2. calc_priority(p) \in Priority
    BY PriorityType
  <2>3. Undisturbed(q, q')
    BY <1>0, <2>1, <2>2, ReprioritizeInv
  <2> QED BY <1>0, <2>1, <2>2, <2>3, ReprioritizeCalm DEF Quiet
<1>3. CASE update_on_resource_response
  <2>1. q' = resource_changed(q) /\ UNCHANGED <<jm, est, rjobs, reqs, resps>>
    BY <1>3 DEF update_on_resource_response, resource
  <2>2. Undisturbed(q, q')
    BY <1>0, <2>1, ResourceChangedInv
  <2> QED BY <1>0, <2>1, <2>2, ResourceChangedCalm DEF Quiet
<1>4. CASE q' = q /\ UNCHANGED <<jm, est, rjobs, reqs, resps>>
  BY <1>4, Composes DEF Quiet, Undisturbed
<1>5. prep_watcher_cb \/ UNCHANGED vars => q' = q /\ UNCHANGED <<jm, est, rjobs, reqs, resps>>
  BY DEF prep_watcher_cb, vars, resource
<1> QED BY <1>1, <1>2, <1>3, <1>4, <1>5

\* What an alloc request does.
LEMMA AllocEffect ==
    ASSUME IInv, NEW j \in Job, NEW p \in Priority, jobmanager_alloc_cb(j, p)
    PROVE  /\ jm[j] = "idle" /\ UNCHANGED <<est, rjobs, reqs, resps>>
           /\ Undisturbed(q, q')
           /\ \/ q' = q /\ jm' = [jm EXCEPT ![j] = "gone"]
              \/ /\ q.state[j] = "NONE" /\ jm' = [jm EXCEPT ![j] = "waiting"]
                 /\ q'.state = [q.state EXCEPT ![j] = "PENDING"]
                 /\ q'.alloced = q.alloced /\ q'.rejected = q.rejected
                 /\ q'.canceled = q.canceled /\ q'.running = q.running
                 /\ q'.reserved = q.reserved /\ q'.active = q.active
                 /\ q'.reservationCnt = q.reservationCnt /\ q'.tryReserve = q.tryReserve
                 /\ Wakes(q')
                 /\ Deferring(q) => Deferring(q')
<1>0. QInv(q)
  BY DEF IInv
<1>1. jm[j] = "idle" /\ UNCHANGED <<est, rjobs, reqs, resps>>
  BY DEF jobmanager_alloc_cb, resource
<1>2. CASE UNCHANGED q /\ jm' = [jm EXCEPT ![j] = "gone"]
  BY <1>1, <1>2 DEF Undisturbed
<1>3. CASE /\ q.state[j] = "NONE" /\ q' = insert(q, j, calc_priority(p))
           /\ jm' = [jm EXCEPT ![j] = "waiting"]
  <2>1. calc_priority(p) \in Priority
    BY PriorityType
  <2>2. Undisturbed(q, q')
    BY <1>0, <1>3, <2>1, InsertInv
  <2> QED BY <1>0, <1>1, <1>3, <2>2, InsertEffect
<1> QED BY <1>2, <1>3 DEF jobmanager_alloc_cb

\* The tables after a removal of job j that succeeded (gone) or not, or was
\* partial.
Releases(j, gone) ==
    /\ \A i \in Job \ {j} : rjobs'[i] = rjobs[i]
    /\ rjobs[j] \in {"ALLOCATED", "ALLOC_ERROR", "ERROR"} =>
          IF gone THEN rjobs'[j] \in {"NONE", "ERROR"}
                  ELSE rjobs'[j] \in {rjobs[j], "ERROR", "ALLOC_ERROR"}

\* What a free request does to a job that is not pending.
LEMMA FreeEffect ==
    ASSUME IInv, NEW j \in Job, NEW final \in BOOLEAN, jobmanager_free_cb(j, final),
           q.state[j] # "PENDING"
    PROVE  /\ jm[j] = "alloced" /\ UNCHANGED <<est, reqs, resps>>
           /\ jm' = [jm EXCEPT ![j] = IF final THEN "gone" ELSE @]
           /\ Undisturbed(q, q')
           /\ \/ UNCHANGED <<q, rjobs>>
              \/ \E gone \in BOOLEAN :
                    /\ gone => q.state[j] \in {"RUNNING", "ALLOC_RUNNING"}
                    /\ q.state[j] # "NONE"
                    /\ q'.state = IF gone THEN [q.state EXCEPT ![j] = "NONE"] ELSE q.state
                    /\ q'.alloced = IF gone THEN q.alloced \ {j} ELSE q.alloced
                    /\ q'.running = IF gone THEN q.running \ {j} ELSE q.running
                    /\ q'.rejected = q.rejected /\ q'.canceled = q.canceled
                    /\ q'.reserved = q.reserved /\ q'.active = q.active
                    /\ q'.reservationCnt = q.reservationCnt /\ q'.tryReserve = q.tryReserve
                    /\ Wakes(q) => Wakes(q')
                    /\ Deferring(q) => Deferring(q')
                    /\ q.state[j] \in {"RUNNING", "ALLOC_RUNNING"} => Releases(j, gone)
<1>0. QInv(q) /\ TypeOK /\ rjobs \in [Job -> RJobState]
  BY DEF IInv, TypeOK
<1>1. /\ jm[j] = "alloced" /\ UNCHANGED <<est, reqs, resps>>
      /\ jm' = [jm EXCEPT ![j] = IF final THEN "gone" ELSE @]
  BY DEF jobmanager_free_cb
<1>2. CASE UNCHANGED <<q, rjobs>>
  BY <1>1, <1>2 DEF Undisturbed
<1> DEFINE held == rjobs[j] \in {"ALLOCATED", "ALLOC_ERROR"}
<1>3. CASE /\ q.state[j] # "NONE"
           /\ \E fails \in {FALSE, RemoveMayFail}, full \in {final, TRUE} :
                    /\ q' = remove(q, j, final, ~(held /\ fails), held /\ full)
                    /\ rjobs' = IF final
                                THEN cancel_request_cb(rjobs, j, fails)
                                ELSE partial_cancel_request_cb(rjobs, j, fails, full)
  <2>1. PICK fails \in {FALSE, RemoveMayFail}, full \in {final, TRUE} :
                    /\ q' = remove(q, j, final, ~(held /\ fails), held /\ full)
                    /\ rjobs' = IF final
                                THEN cancel_request_cb(rjobs, j, fails)
                                ELSE partial_cancel_request_cb(rjobs, j, fails, full)
    BY <1>3
  <2> DEFINE ok == ~(held /\ fails)
             all == held /\ full
             runs == q.state[j] \in {"RUNNING", "ALLOC_RUNNING"}
             gone == runs /\ ok /\ (all \/ final)
  <2>2. /\ fails \in BOOLEAN /\ full \in BOOLEAN /\ (final => full)
        /\ gone \in BOOLEAN
    BY RemoveAssumption
  <2>3. runs => Releases(j, gone)
    <3> SUFFICES ASSUME runs PROVE Releases(j, gone)
      OBVIOUS
    <3>1. \A i \in Job \ {j} : rjobs'[i] = rjobs[i]
      BY <1>0, <2>1 DEF cancel_request_cb, partial_cancel_request_cb, run_remove
    <3>2. ASSUME rjobs[j] \in {"ALLOCATED", "ALLOC_ERROR", "ERROR"}
          PROVE  IF gone THEN rjobs'[j] \in {"NONE", "ERROR"}
                         ELSE rjobs'[j] \in {rjobs[j], "ERROR", "ALLOC_ERROR"}
      <4>1. CASE final
        BY <1>0, <2>1, <2>2, <3>2, <4>1 DEF cancel_request_cb, run_remove, Removable
      <4>2. CASE ~final
        BY <1>0, <2>1, <2>2, <3>2, <4>2 DEF partial_cancel_request_cb, run_remove
      <4> QED BY <4>1, <4>2
    <3> QED BY <3>1, <3>2 DEF Releases
  <2>4. q' = remove(q, j, final, ok, all)
    BY <2>1
  <2> HIDE DEF ok, all
  <2>5. Undisturbed(q, q')
    BY <1>0, <2>4, RemoveInv
  <2>6. /\ q'.state = IF gone THEN [q.state EXCEPT ![j] = "NONE"] ELSE q.state
        /\ q'.alloced = IF gone THEN q.alloced \ {j} ELSE q.alloced
        /\ q'.running = IF gone THEN q.running \ {j} ELSE q.running
        /\ q'.rejected = q.rejected /\ q'.canceled = q.canceled
        /\ q'.reserved = q.reserved /\ q'.active = q.active
        /\ q'.reservationCnt = q.reservationCnt /\ q'.tryReserve = q.tryReserve
        /\ Wakes(q) => Wakes(q')
        /\ Deferring(q) => Deferring(q')
    <3>1. LET r == remove(q, j, final, ok, all)
              g == q.state[j] \in {"RUNNING", "ALLOC_RUNNING"} /\ ok /\ (all \/ final)
          IN  /\ r.state = IF g THEN [q.state EXCEPT ![j] = "NONE"] ELSE q.state
              /\ r.alloced = IF g THEN q.alloced \ {j} ELSE q.alloced
              /\ r.running = IF g THEN q.running \ {j} ELSE q.running
              /\ r.rejected = q.rejected /\ r.canceled = q.canceled
              /\ r.reserved = q.reserved /\ r.active = q.active
              /\ r.reservationCnt = q.reservationCnt /\ r.tryReserve = q.tryReserve
              /\ Wakes(q) => Wakes(r)
              /\ Deferring(q) => Deferring(r)
      BY <1>0, RemoveEffect, Zenon
    <3> QED BY <2>4, <3>1, Zenon
  <2>7. gone => runs
    OBVIOUS
  <2> HIDE DEF gone
  <2> QED BY <1>1, <1>3, <2>2, <2>3, <2>5, <2>6, <2>7
<1> QED BY <1>2, <1>3 DEF jobmanager_free_cb

-----------------------------------------------------------------------------
\* What posting the answers does.
LEMMA PostEffect ==
    ASSUME NEW r, QInv(r), post_sched_loop(r)
    PROVE  /\ q'.state = [j \in Job |-> IF j \in r.canceled THEN "NONE" ELSE r.state[j]]
           /\ q'.alloced = {} /\ q'.rejected = {} /\ q'.canceled = {}
           /\ q'.running = r.running /\ q'.reserved = r.reserved
           /\ q'.active = r.active /\ q'.iter = r.iter /\ q'.pending = r.pending
           /\ q'.prio = r.prio /\ q'.ts = r.ts
           /\ q'.reservationCnt = r.reservationCnt /\ q'.tryReserve = r.tryReserve
           /\ Wakes(r) => Wakes(q')
           /\ Deferring(r) => Deferring(q')
<1> DEFINE changed == {j \in IdsOf(WithinDepth(r.pending)) : r.sched[j].at # r.sched[j].oldAt}
           T == [j \in Job |-> IF j \in r.canceled THEN "NONE" ELSE r.state[j]]
           D == [j \in Job |-> IF j \in changed
                               THEN [r.sched[j] EXCEPT !.oldAt = r.sched[j].at]
                               ELSE r.sched[j]]
<1>0. r \in QueueState /\ Settled(r)
  BY DEF QInv
<1>1. q' = [r EXCEPT !.alloced = {}, !.rejected = {}, !.canceled = {},
                     !.state = T, !.sched = D, !.scheduled = FALSE, !.dirty = FALSE]
  BY DEF post_sched_loop
<1>2. \A j \in Job : r.state[j] = "PENDING" => T[j] = "PENDING"
  BY <1>0 DEF Settled
<1> HIDE DEF changed, T, D
<1>3. /\ q'.state = T /\ q'.prio = r.prio /\ q'.ts = r.ts
      /\ q'.pending = r.pending /\ q'.iter = r.iter /\ q'.active = r.active
      /\ q'.canceled = {} /\ q'.alloced = {} /\ q'.rejected = {}
      /\ q'.running = r.running /\ q'.reserved = r.reserved
      /\ q'.reservationCnt = r.reservationCnt /\ q'.tryReserve = r.tryReserve
      /\ q'.provisional = r.provisional /\ q'.schedulable = r.schedulable
      /\ q'.cancelProv = r.cancelProv /\ q'.reprioProv = r.reprioProv
      /\ q'.reconsider = r.reconsider /\ q'.scheduledCnt = r.scheduledCnt
  BY <1>0, <1>1 DEF QueueState
<1>4. Wakes(r) => Wakes(q')
  BY <1>3 DEF Wakes
<1>5. ASSUME Deferring(r) PROVE Deferring(q')
  <2>1. /\ \A i \in DOMAIN r.cancelProv : r.cancelProv[i] \in Job
        /\ \A i \in DOMAIN r.reprioProv : r.reprioProv[i].id \in Job
    BY <1>0, DeferredJobs
  <2> QED BY <1>2, <1>3, <1>5, <2>1 DEF Deferring, Drained, Ripe
<1> QED BY <1>3, <1>4, <1>5 DEF T

\* Whether all reservations were cancelled (ok), and the tables after that.
Frees(ok) ==
    /\ \A j \in Job : IF j \in q.reserved
                      THEN rjobs[j] = "RESERVED" => rjobs'[j] \in {"NONE", "ERROR"}
                      ELSE rjobs'[j] = rjobs[j]
    /\ q.reserved = {} => ok
    /\ ~RemoveMayFail /\ (\A j \in q.reserved : rjobs[j] = "RESERVED") => ok

\* The check watcher does nothing, posts the answers that are due, or starts a
\* loop and then posts them.
LEMMA CheckCases ==
    ASSUME IInv, check_watcher_cb
    PROVE  /\ UNCHANGED resps
           /\ \/ UNCHANGED <<q, jm, est, rjobs, reqs>>
              \/ post_sched_loop(q) /\ UNCHANGED <<rjobs, reqs>>
              \/ \E ok \in BOOLEAN :
                    /\ ~q.active /\ reqs = << >> /\ reqs' = run_sched_loop(ok).send
                    /\ Frees(ok)
                    /\ \/ ok /\ post_sched_loop(run_sched_loop(ok).q)
                       \/ ~ok /\ q' = run_sched_loop(ok).q /\ UNCHANGED <<jm, est>>
<1>0. QInv(q) /\ TypeOK /\ Channels /\ rjobs \in [Job -> RJobState]
  BY DEF IInv, TypeOK
<1>1. UNCHANGED resps
  BY DEF check_watcher_cb
<1>2. CASE ~pls.sched
  BY <1>1, <1>2 DEF check_watcher_cb
<1>3. CASE pls.sched
  <2>1. PICK failed \in IF RemoveMayFail THEN SUBSET q.reserved ELSE {{}} :
                LET old == IF q.active THEN {} ELSE q.reserved
                    ok  == \A j \in old : Removable(rjobs, j) /\ j \notin failed
                    r   == run_sched_loop(ok)
                IN  /\ rjobs' = [j \in Job |->
                                    IF j \in old
                                    THEN cancel_request_cb(rjobs, j, j \in failed)[j]
                                    ELSE rjobs[j]]
                    /\ reqs' = reqs \o r.send
                    /\ \/ ok /\ post_sched_loop(r.q)
                       \/ ~ok /\ q' = r.q /\ UNCHANGED <<jm, est>>
    BY <1>3 DEF check_watcher_cb
  <2> DEFINE old == IF q.active THEN {} ELSE q.reserved
             ok  == \A j \in old : Removable(rjobs, j) /\ j \notin failed
             r   == run_sched_loop(ok)
  <2>2. /\ rjobs' = [j \in Job |-> IF j \in old
                                   THEN cancel_request_cb(rjobs, j, j \in failed)[j]
                                   ELSE rjobs[j]]
        /\ reqs' = reqs \o r.send
        /\ \/ ok /\ post_sched_loop(r.q)
           \/ ~ok /\ q' = r.q /\ UNCHANGED <<jm, est>>
    BY <2>1
  <2>3. ok \in BOOLEAN
    OBVIOUS
  <2>4. CASE q.active
    <3>1. ok /\ old = {}
      BY <2>4
    <3> HIDE DEF ok, old
    <3>2. r = [q |-> q, send |-> << >>]
      BY <2>4 DEF run_sched_loop, fcfs_run_sched_loop, bf_run_sched_loop
    <3> HIDE DEF r
    <3>3. reqs \in Seq([jobs : Seq(Job), reserve : BOOLEAN])
      BY <1>0 DEF TypeOK
    <3>4. reqs' = reqs
      BY <2>2, <3>2, <3>3
    <3>5. rjobs' = rjobs
      BY <1>0, <2>2, <3>1
    <3> QED BY <1>1, <2>2, <3>1, <3>2, <3>4, <3>5
  <2>5. CASE ~q.active
    <3>1. reqs = << >>
      BY <1>0, <2>5 DEF Channels
    <3>2. Frees(ok)
      <4>1. old = q.reserved
        BY <2>5
      <4>2. ASSUME NEW j \in Job
            PROVE  IF j \in q.reserved
                   THEN rjobs[j] = "RESERVED" => rjobs'[j] \in {"NONE", "ERROR"}
                   ELSE rjobs'[j] = rjobs[j]
        <5> HIDE DEF old
        <5>1. CASE j \in q.reserved
          <6> SUFFICES ASSUME rjobs[j] = "RESERVED" PROVE rjobs'[j] \in {"NONE", "ERROR"}
            BY <5>1
          <6>1. rjobs'[j] = cancel_request_cb(rjobs, j, j \in failed)[j]
            BY <2>2, <4>1, <5>1
          <6>2. Removable(rjobs, j)
            BY DEF Removable
          <6>3. rjobs'[j] = IF j \in failed THEN "ERROR" ELSE "NONE"
            BY <1>0, <6>1, <6>2 DEF cancel_request_cb, run_remove
          <6> QED BY <6>3
        <5>2. CASE j \notin q.reserved
          BY <2>2, <4>1, <5>2
        <5> QED BY <5>1, <5>2
      <4>3. q.reserved = {} => ok
        BY <4>1
      <4>4. ~RemoveMayFail /\ (\A j \in q.reserved : rjobs[j] = "RESERVED") => ok
        BY <2>1, <4>1 DEF Removable
      <4> HIDE DEF ok, old
      <4> QED BY <4>2, <4>3, <4>4 DEF Frees
    <3> HIDE DEF ok, old
    <3>3. reqs' = r.send
      <4>1. Policy = "fcfs" => r = fcfs_run_sched_loop(q)
        BY DEF run_sched_loop
      <4>2. Policy # "fcfs" => r = bf_run_sched_loop(q, ok)
        BY DEF run_sched_loop
      <4> HIDE DEF r
      <4>3. CASE Policy # "fcfs"
        <5>1. Driven(r)
          BY <1>0, <2>5, <4>2, <4>3, BackfillRunInv
        <5> QED BY <2>2, <3>1, <5>1, DrivenSend
      <4>4. CASE Policy = "fcfs"
        <5>1. LET n == fcfs_run_sched_loop(q)
              IN  \/ n.send = << >> /\ ~n.q.active
                  \/ \E J \in Seq(Job) : /\ n.send = << [jobs |-> J, reserve |-> FALSE] >>
                                         /\ Len(J) <= Cardinality(n.q.pending)
                                         /\ n.q.active
          BY <1>0, <2>5, FcfsRunInv, Zenon
        <5>2. r.send = << >> \/ \E y : r.send = <<y>>
          BY <4>1, <4>4, <5>1, Zenon
        <5>3. CASE r.send = << >>
          <6>1. << >> \o << >> = << >>
            OBVIOUS
          <6> QED BY <2>2, <3>1, <5>3, <6>1
        <5>4. CASE \E y : r.send = <<y>>
          <6>1. PICK y : r.send = <<y>>
            BY <5>4
          <6>2. << >> \o <<y>> = <<y>>
            OBVIOUS
          <6> QED BY <2>2, <3>1, <6>1, <6>2
        <5> QED BY <5>2, <5>3, <5>4
      <4> QED BY <4>3, <4>4
    <3> QED BY <1>1, <2>2, <2>3, <2>5, <3>1, <3>2, <3>3
  <2> QED BY <2>4, <2>5
<1> QED BY <1>2, <1>3

-----------------------------------------------------------------------------
\* What a backfill callback leaves of a queue x it has decided upon: the loop goes
\* on from x, or ends.
Continues(x) == QInv(x) /\ Drives(x, [q |-> q', send |-> reqs'])

\* A response to a backfill policy: the end of a stream is ignored, and a verdict
\* decides about the iterator's job.
LEMMA BackfillDecision ==
    ASSUME IInv, Policy # "fcfs", match_allocate_multi_cont
    PROVE  /\ UNCHANGED <<jm, est, rjobs>> /\ resps # << >> /\ resps' = Tail(resps)
           /\ \/ resps[1] = EndOfStream /\ q' = q /\ reqs' = reqs
              \/ /\ resps[1] # EndOfStream /\ q.active /\ q.iter # Nil
                 /\ \A i \in DOMAIN resps : i # 1 => resps[i] = EndOfStream
                 /\ \A i \in DOMAIN resps' : resps'[i] = EndOfStream
                 /\ reqs # reqs' => q'.active
                 /\ \/ /\ resps[1].kind = "ok" /\ resps[1].job = q.iter
                       /\ resps[1].status = "RESERVED"
                       /\ \E x : Reserves(q, x) /\ Continues(x)
                    \/ /\ resps[1].kind = "ok" /\ resps[1].job = q.iter
                       /\ resps[1].status # "RESERVED"
                       /\ \E x : Starts(q, x) /\ Continues(x)
                    \/ /\ resps[1].kind = "err"
                       /\ \E x : (Rejects(q, x) \/ Passes(q, x)) /\ Continues(x)
<1>0. QInv(q)
  BY DEF IInv
<1>1. UNCHANGED <<jm, est, rjobs>> /\ resps # << >> /\ resps' = Tail(resps)
  BY BackfillResponse DEF match_allocate_multi_cont
<1>2. CASE resps[1] = EndOfStream /\ q' = q /\ reqs' = reqs
  BY <1>1, <1>2
<1>3. CASE resps[1] # EndOfStream /\ q.active /\ q.iter # Nil /\ reqs = << >>
  <2>0. /\ \A i \in DOMAIN resps : i # 1 => resps[i] = EndOfStream
        /\ \A i \in DOMAIN resps' : resps'[i] = EndOfStream
    BY <1>3, BackfillResponse
  <2>1. ASSUME NEW n, Driven(n), q' = n.q, reqs' = n.send
        PROVE  /\ \A x : Drives(x, n) => Drives(x, [q |-> q', send |-> reqs'])
               /\ reqs # reqs' => q'.active
    BY <1>3, <2>1 DEF Driven, Drives
  <2>2. CASE /\ resps[1].kind = "ok" /\ resps[1].job = q.iter /\ resps[1].at \in Nat
             /\ LET n == bf_handle_match_success(q, q.iter, resps[1].status, resps[1].at)
                IN  Driven(n) /\ q' = n.q /\ reqs' = n.send
    <3> DEFINE n == bf_handle_match_success(q, q.iter, resps[1].status, resps[1].at)
               s == resps[1].status
    <3>1. \E x : /\ QInv(x) /\ Drives(x, n)
                 /\ IF s = "RESERVED" THEN Reserves(q, x) ELSE Starts(q, x)
      BY <1>0, <1>3, <2>2, BackfillSuccessEffect
    <3>2. Driven(n) /\ q' = n.q /\ reqs' = n.send
      BY <2>2
    <3> HIDE DEF n
    <3>3. PICK x : /\ QInv(x) /\ Drives(x, n)
                   /\ IF s = "RESERVED" THEN Reserves(q, x) ELSE Starts(q, x)
      BY <3>1
    <3>4. Continues(x) /\ (reqs # reqs' => q'.active)
      BY <2>1, <3>2, <3>3 DEF Continues
    <3> QED BY <1>1, <1>3, <2>0, <2>2, <3>3, <3>4
  <2>3. CASE /\ resps[1].kind = "err" /\ resps[1].err # "ENODATA"
             /\ LET n == bf_handle_match_failure(q, resps[1].err)
                IN  Driven(n) /\ q' = n.q /\ reqs' = n.send
    <3> DEFINE n == bf_handle_match_failure(q, resps[1].err)
    <3>1. \E x : QInv(x) /\ Drives(x, n) /\ (Rejects(q, x) \/ Passes(q, x))
      BY <1>0, <1>3, <2>3, BackfillFailureEffect
    <3>2. Driven(n) /\ q' = n.q /\ reqs' = n.send
      BY <2>3
    <3> HIDE DEF n
    <3>3. PICK x : QInv(x) /\ Drives(x, n) /\ (Rejects(q, x) \/ Passes(q, x))
      BY <3>1
    <3>4. Continues(x) /\ (reqs # reqs' => q'.active)
      BY <2>1, <3>2, <3>3 DEF Continues
    <3> QED BY <1>1, <1>3, <2>0, <2>3, <3>3, <3>4
  <2> QED BY <1>3, <2>2, <2>3, BackfillResponse
<1> QED BY <1>2, <1>3, BackfillResponse

-----------------------------------------------------------------------------
\* The jobs an fcfs request asks for are the first of m_pending, in order, and no
\* reservation is asked for.
RequestsFollow ==
    \A n \in DOMAIN reqs :
        /\ ~reqs[n].reserve
        /\ \A i \in DOMAIN reqs[n].jobs :
              Follows(q.pending, reqs[n].jobs[i], Upto(reqs[n].jobs, i))

\* The jobs the responses before position i are about.
Heard(s, i) == {s[k].job : k \in 1..(i - 1)}

\* The allocations in flight are those of the first jobs of m_pending, in order.
ResponsesFollow ==
    \A i \in DOMAIN resps : resps[i].kind = "ok" =>
        resps[i].status = "ALLOCATED" /\ Follows(q.pending, resps[i].job, Heard(resps, i))

FcfsStream == Policy = "fcfs" => RequestsFollow /\ ResponsesFollow

\* The inductive invariant, with the order of the fcfs stream.
SInv == IInv /\ FcfsStream

\* The job that nothing is before is at the beginning.
LEMMA FollowsNone ==
    ASSUME NEW Q, QInv(Q), NEW j, Follows(Q.pending, j, {})
    PROVE  BeginOf(Q.pending) = j
<1>1. PICK e \in Q.pending : e.id = j /\ \A f \in Q.pending : ~Before(f, e)
  BY DEF Follows
<1>2. Q.pending \subseteq Entry
  BY Fields DEF QInv
<1>3. \A f \in Q.pending : f = e \/ Before(e, f)
  <2> TAKE f \in Q.pending
  <2>1. SameKey(e, f) \/ Before(e, f)
    BY <1>1, <1>2, Order
  <2> QED BY <2>1, KeysDistinct
<1>4. Least(Q.pending) = {e}
  <2>1. e \in Least(Q.pending)
    BY <1>3 DEF Least
  <2>2. ASSUME NEW f \in Least(Q.pending) PROVE f = e
    BY <1>1, <2>2 DEF Least
  <2> QED BY <2>1, <2>2
<1> QED BY <1>1, <1>4 DEF BeginOf

\* When the first job leaves m_pending, the others follow one job less.
LEMMA FollowsAfter ==
    ASSUME NEW Q, QInv(Q), NEW a \in Job, get_key(Q, a) \in Q.pending, NEW j,
           NEW S, NEW T, Follows(Q.pending, j, S), a \in S,
           \A b : b # a => (b \in S <=> b \in T)
    PROVE  Follows(Q.pending \ {get_key(Q, a)}, j, T)
<1> DEFINE k == get_key(Q, a)
<1>1. PICK e \in Q.pending : e.id = j /\ \A f \in Q.pending : Before(f, e) <=> f.id \in S
  BY DEF Follows
<1>2. k.id = a /\ k \in Q.pending
  BY DEF get_key
<1> HIDE DEF k
<1>3. Q.pending \subseteq Entry
  BY Fields DEF QInv
<1>4. e # k
  BY <1>1, <1>2, <1>3, Order
<1>5. \A f \in Q.pending \ {k} : f.id # a
  BY <1>2, KeysDistinct
<1>6. \A f \in Q.pending \ {k} : Before(f, e) <=> f.id \in T
  BY <1>1, <1>5
<1>7. Follows(Q.pending \ {k}, j, T)
  BY <1>1, <1>4, <1>6 DEF Follows
<1> QED BY <1>7 DEF k

\* The first response of an fcfs stream is about the iterator's job.
LEMMA HeadIsIterator ==
    ASSUME SInv, Policy = "fcfs", resps # << >>, resps[1].kind = "ok"
    PROVE  resps[1].job = q.iter
<1>0. QInv(q) /\ TypeOK /\ FcfsChannels
  BY DEF SInv, IInv, Channels
<1>1. q.active
  BY <1>0 DEF FcfsChannels
<1>2. 1 \in DOMAIN resps
  <2>1. resps \in Seq(Success \cup Failure)
    BY <1>0 DEF TypeOK
  <2> DEFINE M == Success \cup Failure
  <2> HIDE DEF M
  <2>2. Len(resps) \in Nat /\ Len(resps) >= 1 /\ DOMAIN resps = 1..Len(resps)
    BY <2>1, HeadTail DEF M
  <2> QED BY <2>2
<1>3. Heard(resps, 1) = {}
  BY DEF Heard
<1>4. Follows(q.pending, resps[1].job, {})
  BY <1>2, <1>3 DEF SInv, FcfsStream, ResponsesFollow
<1>5. q.iter = BeginOf(q.pending)
  BY <1>0, <1>1 DEF QInv, Cursor
<1> QED BY <1>0, <1>4, <1>5, FollowsNone

\* A callback that leaves the loop and the channels alone leaves the stream alone.
LEMMA UndisturbedStream ==
    ASSUME SInv, Undisturbed(q, q'), UNCHANGED <<reqs, resps>>
    PROVE  FcfsStream'
<1> SUFFICES ASSUME Policy = "fcfs" PROVE RequestsFollow' /\ ResponsesFollow'
  BY DEF FcfsStream
<1>0. RequestsFollow /\ ResponsesFollow /\ Channels /\ FcfsChannels
  BY DEF SInv, IInv, FcfsStream, Channels
<1>1. CASE q.active
  <2>1. q'.pending = q.pending
    BY <1>1 DEF Undisturbed
  <2> QED BY <1>0, <2>1 DEF RequestsFollow, ResponsesFollow
<1>2. CASE ~q.active
  <2>1. reqs' = << >> /\ resps' = << >>
    BY <1>0, <1>2 DEF Channels, FcfsChannels
  <2> QED BY <2>1 DEF RequestsFollow, ResponsesFollow
<1> QED BY <1>1, <1>2

\* match_multi_request_cb answers in the order of the request.
LEMMA ServiceStream ==
    ASSUME SInv, MatchService
    PROVE  FcfsStream'
<1> SUFFICES ASSUME Policy = "fcfs" PROVE RequestsFollow' /\ ResponsesFollow'
  BY DEF FcfsStream
<1>0. /\ RequestsFollow /\ TypeOK /\ Channels /\ FcfsChannels
  BY DEF SInv, IInv, FcfsStream, Channels
<1> DEFINE M == Success \cup Failure
           R == [jobs : Seq(Job), reserve : BOOLEAN]
           req == Head(reqs)
<1>1. /\ reqs # << >> /\ reqs' = Tail(reqs) /\ q' = q
      /\ req.jobs \in Seq(Job)
  BY <1>0, ServiceAnswer
<1>2. PICK oks \in Seq(M), e \in Failure :
          resps' = resps \o oks \o <<e>> /\ Answers(req, oks, e)
  BY <1>0, ServiceAnswer
<1>3. resps = << >> /\ Len(reqs) = 1
  BY <1>0, <1>1 DEF Channels, FcfsChannels
<1>4. e \in M /\ reqs \in Seq(R) /\ << >> \in Seq(M)
  BY <1>0 DEF TypeOK
<1> HIDE DEF M, R
<1>5. 1 \in DOMAIN reqs /\ req = reqs[1] /\ reqs' = << >>
  <2>1. /\ DOMAIN reqs = 1..Len(reqs) /\ req = reqs[1]
        /\ Tail(reqs) \in Seq(R) /\ Len(Tail(reqs)) = 0
    BY <1>1, <1>3, <1>4, HeadTail
  <2>2. Tail(reqs) = << >>
    BY <2>1, NoElements, Zenon
  <2> QED BY <1>1, <1>3, <2>1, <2>2
<1>6. /\ ~req.reserve
      /\ \A i \in DOMAIN req.jobs : Follows(q.pending, req.jobs[i], Upto(req.jobs, i))
  BY <1>0, <1>5 DEF RequestsFollow
<1> HIDE DEF req
<1>7. RequestsFollow'
  BY <1>5 DEF RequestsFollow
<1>8. /\ DOMAIN resps' = 1..(Len(oks) + 1) /\ Len(oks) \in Nat
      /\ \A i \in 1..Len(oks) : resps'[i] = oks[i]
      /\ resps'[Len(oks) + 1] = e
  <2> DEFINE u == << >> \o oks \o <<e>>
  <2>1. resps' = u
    BY <1>2, <1>3
  <2>2. Len(<< >>) = 0
    OBVIOUS
  <2>3. /\ Len(oks) \in Nat /\ DOMAIN u = 1..(0 + Len(oks) + 1)
        /\ \A i \in 1..Len(oks) : u[0 + i] = oks[i]
        /\ u[0 + Len(oks) + 1] = e
    BY <1>2, <1>4, <2>2, ConcatAppend
  <2> HIDE DEF u
  <2> QED BY <2>1, <2>3
<1>9. /\ Len(oks) <= Len(req.jobs) /\ e.kind = "err"
      /\ \A i \in 1..Len(oks) : /\ oks[i].job = req.jobs[i]
                                /\ oks[i].status = "ALLOCATED"
  BY <1>2, <1>6 DEF Answers
<1>10. DOMAIN req.jobs = 1..Len(req.jobs) /\ Len(req.jobs) \in Nat
  BY <1>1
<1>11. ASSUME NEW i \in DOMAIN resps', resps'[i].kind = "ok"
       PROVE  resps'[i].status = "ALLOCATED" /\ Follows(q.pending, resps'[i].job, Heard(resps', i))
  <2>1. i \in 1..Len(oks)
    BY <1>8, <1>9, <1>11
  <2>2. resps'[i].job = req.jobs[i] /\ resps'[i].status = "ALLOCATED"
    BY <1>8, <1>9, <2>1
  <2>3. Heard(resps', i) = Upto(req.jobs, i)
    <3>1. \A k \in 1..(i - 1) : resps'[k].job = req.jobs[k]
      BY <1>8, <1>9, <2>1
    <3> QED BY <3>1 DEF Heard, Upto
  <2>4. i \in DOMAIN req.jobs
    BY <1>8, <1>9, <1>10, <2>1
  <2> QED BY <1>6, <2>2, <2>3, <2>4
<1>12. ResponsesFollow'
  BY <1>1, <1>11 DEF ResponsesFollow, Heard
<1> QED BY <1>7, <1>12

\* What a response does under fcfs, now that a success is known to be about the
\* iterator's job: it starts that job, or ends the loop.
LEMMA FcfsDecision ==
    ASSUME SInv, Policy = "fcfs", match_allocate_multi_cont
    PROVE  /\ UNCHANGED <<jm, est, rjobs>>
           /\ resps # << >> /\ q.active /\ reqs = << >> /\ reqs' = << >>
           /\ \/ /\ resps[1].kind = "ok" /\ resps[1].job = q.iter /\ q.iter # Nil
                 /\ QInv(q') /\ Starts(q, q') /\ resps' = Tail(resps)
              \/ /\ resps[1].kind = "err" /\ resps' = << >> /\ ~q'.active
                 /\ \A i \in DOMAIN resps : resps[i].kind = "err"
                 /\ q'.reserved = q.reserved /\ q'.reservationCnt = 0
                 /\ Wakes(q) => Wakes(q')
                 /\ \E x : (x = q \/ (q.iter # Nil /\ Rejects(q, x))) /\ Settles(x, q')
<1>0. IInv /\ QInv(q) /\ TypeOK /\ FcfsChannels
  BY DEF SInv, IInv, Channels
<1>1. /\ resps # << >> /\ q.active /\ reqs = << >> /\ reqs' = << >>
      /\ UNCHANGED <<jm, est, rjobs>>
  BY <1>0, FcfsResponse DEF match_allocate_multi_cont
<1>2. CASE resps[1].kind = "ok"
  <2>1. resps[1].job = q.iter
    BY <1>1, <1>2, HeadIsIterator
  <2>2. q.iter # Nil /\ q' = to_running(q, q.iter) /\ resps' = Tail(resps)
    BY <1>0, <1>2, <2>1, FcfsResponse
  <2>3. QInv(q') /\ Starts(q, q')
    BY <1>0, <1>1, <2>2, ToRunningInv, ToRunningEffect
  <2> QED BY <1>1, <1>2, <2>1, <2>2, <2>3
<1>3. CASE resps[1].kind # "ok"
  <2> DEFINE err == resps[1].err
  <2>1. /\ resps[1].kind = "err" /\ resps' = << >>
        /\ err # "ENODATA" => q.iter # Nil
        /\ q' = fcfs_handle_match_failure(q, err)
    BY <1>0, <1>3, FcfsResponse
  <2> HIDE DEF err
  <2>2. ~q'.active
    BY <1>0, <1>1, <2>1, FcfsFailureInv
  <2>3. LET r == fcfs_handle_match_failure(q, err)
        IN  \E x : /\ x = q \/ (q.iter # Nil /\ Rejects(q, x))
                   /\ Settles(x, r) /\ r.reserved = x.reserved
                   /\ r.reservationCnt = 0
                   /\ Wakes(q) => Wakes(r)
    BY <1>0, <1>1, <2>1, FcfsFailureEffect
  <2>4. PICK x : /\ x = q \/ (q.iter # Nil /\ Rejects(q, x))
                 /\ Settles(x, q') /\ q'.reserved = x.reserved
                 /\ q'.reservationCnt = 0
                 /\ Wakes(q) => Wakes(q')
    BY <2>1, <2>3
  <2>5. x.reserved = q.reserved
    BY <2>4 DEF Rejects
  <2>6. \A i \in DOMAIN resps : resps[i].kind = "err"
    <3> DEFINE M == Success \cup Failure
    <3>1. resps \in Seq(M)
      BY <1>0 DEF TypeOK
    <3> HIDE DEF M
    <3>2. Len(resps) \in Nat /\ Len(resps) >= 1 /\ DOMAIN resps = 1..Len(resps)
      BY <1>1, <3>1, HeadTail
    <3>3. \A i \in DOMAIN resps : resps[i].kind = "err" <=> i = Len(resps)
      BY <1>0, <1>1 DEF FcfsChannels
    <3>4. Len(resps) = 1
      BY <2>1, <3>2, <3>3
    <3> QED BY <2>1, <3>2, <3>4
  <2> QED BY <1>1, <2>1, <2>2, <2>4, <2>5, <2>6
<1> QED BY <1>2, <1>3

\* A started job takes its entry along, and the stream goes on with the next one.
LEMMA ContStream ==
    ASSUME SInv, match_allocate_multi_cont
    PROVE  FcfsStream'
<1> SUFFICES ASSUME Policy = "fcfs" PROVE RequestsFollow' /\ ResponsesFollow'
  BY DEF FcfsStream
<1>0. QInv(q) /\ TypeOK /\ ResponsesFollow
  BY DEF SInv, IInv, FcfsStream
<1>1. /\ resps # << >> /\ q.active /\ reqs' = << >>
      /\ \/ /\ resps[1].job = q.iter /\ q.iter # Nil
            /\ Starts(q, q') /\ resps' = Tail(resps)
         \/ resps' = << >>
  BY FcfsDecision
<1>2. RequestsFollow'
  BY <1>1 DEF RequestsFollow
<1>3. CASE resps' = << >>
  BY <1>2, <1>3 DEF ResponsesFollow
<1>4. CASE /\ resps[1].job = q.iter /\ q.iter # Nil
           /\ Starts(q, q') /\ resps' = Tail(resps)
  <2> DEFINE M == Success \cup Failure
  <2>1. resps \in Seq(M)
    BY <1>0 DEF TypeOK
  <2> HIDE DEF M
  <2>2. /\ Len(resps) \in Nat /\ Len(resps) >= 1 /\ DOMAIN resps = 1..Len(resps)
        /\ DOMAIN Tail(resps) = 1..(Len(resps) - 1)
        /\ \A i \in 1..(Len(resps) - 1) : Tail(resps)[i] = resps[i + 1]
    BY <1>1, <2>1, HeadTail
  <2>3. /\ get_key(q, q.iter) \in q.pending /\ q.iter \in Job
        /\ q'.pending = q.pending \ {get_key(q, q.iter)}
    BY <1>0, <1>4, Fields DEF Starts, QInv, Cursor
  <2>4. ASSUME NEW i \in DOMAIN resps', resps'[i].kind = "ok"
        PROVE  /\ resps'[i].status = "ALLOCATED"
               /\ Follows(q'.pending, resps'[i].job, Heard(resps', i))
    <3>1. i \in 1..(Len(resps) - 1) /\ resps'[i] = resps[i + 1] /\ i + 1 \in DOMAIN resps
      BY <1>4, <2>2, <2>4
    <3>2. /\ resps[i + 1].status = "ALLOCATED"
          /\ Follows(q.pending, resps[i + 1].job, Heard(resps, i + 1))
      BY <1>0, <2>4, <3>1 DEF ResponsesFollow
    <3>3. q.iter \in Heard(resps, i + 1)
      BY <1>4, <2>2, <3>1 DEF Heard
    <3>4. ASSUME NEW b, b # q.iter PROVE b \in Heard(resps, i + 1) <=> b \in Heard(resps', i)
      <4>1. ASSUME b \in Heard(resps, i + 1) PROVE b \in Heard(resps', i)
        <5>1. PICK k \in 1..i : b = resps[k].job
          BY <2>2, <3>1, <4>1 DEF Heard
        <5>2. k # 1
          BY <1>4, <3>4, <5>1
        <5>3. k - 1 \in 1..(i - 1) /\ k - 1 \in 1..(Len(resps) - 1) /\ (k - 1) + 1 = k
          BY <2>2, <3>1, <5>1, <5>2
        <5>4. resps'[k - 1] = resps[k]
          BY <1>4, <2>2, <5>3
        <5> QED BY <5>1, <5>3, <5>4 DEF Heard
      <4>2. ASSUME b \in Heard(resps', i) PROVE b \in Heard(resps, i + 1)
        <5>1. PICK k \in 1..(i - 1) : b = resps'[k].job
          BY <4>2 DEF Heard
        <5>2. k + 1 \in 1..((i + 1) - 1) /\ k \in 1..(Len(resps) - 1)
          BY <2>2, <3>1, <5>1
        <5>3. resps'[k] = resps[k + 1]
          BY <1>4, <2>2, <5>2
        <5> QED BY <5>1, <5>2, <5>3 DEF Heard
      <4> QED BY <4>1, <4>2
    <3> DEFINE S == Heard(resps, i + 1)
               T == Heard(resps', i)
               j == resps[i + 1].job
    <3>5. q.iter \in S /\ Follows(q.pending, j, S) /\ \A b : b # q.iter => (b \in S <=> b \in T)
      BY <3>2, <3>3, <3>4
    <3> HIDE DEF S, T, j
    <3>6. Follows(q.pending \ {get_key(q, q.iter)}, j, T)
      BY <1>0, <2>3, <3>5, FollowsAfter
    <3> QED BY <2>3, <3>1, <3>2, <3>6 DEF T, j
  <2>5. ResponsesFollow'
    BY <2>4 DEF ResponsesFollow, Heard
  <2> QED BY <1>2, <2>5
<1> QED BY <1>1, <1>3, <1>4

\* A new fcfs loop asks for the jobs of m_pending in order.
LEMMA CheckStream ==
    ASSUME SInv, check_watcher_cb
    PROVE  FcfsStream'
<1>0. IInv /\ QInv(q) /\ TypeOK /\ Channels
  BY DEF SInv, IInv
<1>1. CASE UNCHANGED <<q, jm, est, rjobs, reqs>>
  BY <1>0, <1>1, CheckCases, UndisturbedStream DEF Undisturbed
<1>2. CASE post_sched_loop(q) /\ UNCHANGED <<rjobs, reqs>>
  BY <1>0, <1>2, CheckCases, PostStep, UndisturbedStream
<1>3. CASE \E ok \in BOOLEAN :
                    /\ ~q.active /\ reqs = << >> /\ reqs' = run_sched_loop(ok).send
                    /\ Frees(ok)
                    /\ \/ ok /\ post_sched_loop(run_sched_loop(ok).q)
                       \/ ~ok /\ q' = run_sched_loop(ok).q /\ UNCHANGED <<jm, est>>
  <2> SUFFICES ASSUME Policy = "fcfs" PROVE RequestsFollow' /\ ResponsesFollow'
    BY DEF FcfsStream
  <2> DEFINE r == fcfs_run_sched_loop(q)
  <2>1. /\ ~q.active /\ reqs' = r.send
        /\ post_sched_loop(r.q) \/ q' = r.q
    BY <1>3 DEF run_sched_loop
  <2>2. /\ QInv(r.q)
        /\ r.q.active => \E J \in Seq(Job) :
               /\ r.send = << [jobs |-> J, reserve |-> FALSE] >>
               /\ \A i \in DOMAIN J : Follows(r.q.pending, J[i], Upto(J, i))
    BY <1>0, <2>1, FcfsRunInv, FcfsRunEffect
  <2>3. r.q.active \/ r.send = << >>
    BY <1>0, <2>1, FcfsRunInv
  <2> HIDE DEF r
  <2>4. q'.pending = r.q.pending
    BY <2>1, <2>2, PostEffect
  <2>5. resps' = << >>
    BY <1>0, <2>1, CheckCases DEF Channels, FcfsChannels
  <2>6. ResponsesFollow'
    BY <2>5 DEF ResponsesFollow
  <2>7. CASE r.send = << >>
    BY <2>1, <2>6, <2>7 DEF RequestsFollow
  <2>8. CASE r.q.active
    <3>1. PICK J \in Seq(Job) : /\ r.send = << [jobs |-> J, reserve |-> FALSE] >>
                                /\ \A i \in DOMAIN J : Follows(r.q.pending, J[i], Upto(J, i))
      BY <2>2, <2>8
    <3> DEFINE y == [jobs |-> J, reserve |-> FALSE]
    <3>2. \A n \in DOMAIN reqs' : reqs'[n] = y
      <4>1. reqs' = <<y>>
        BY <2>1, <3>1
      <4> HIDE DEF y
      <4> QED BY <4>1
    <3>3. RequestsFollow'
      BY <2>4, <3>1, <3>2 DEF RequestsFollow, Upto
    <3> QED BY <2>6, <3>3
  <2> QED BY <2>3, <2>7, <2>8
<1> QED BY <1>0, <1>1, <1>2, <1>3, CheckCases

\* Every step keeps the order of the stream.
LEMMA NextStream ==
    ASSUME SInv, [Next]_vars
    PROVE  SInv'
<1>0. IInv /\ IInv'
  BY NextInv DEF SInv
<1>1. ASSUME Quiet PROVE FcfsStream'
  BY <1>1, UndisturbedStream DEF Quiet
<1>2. ASSUME NEW j \in Job, NEW p \in Priority, jobmanager_alloc_cb(j, p) PROVE FcfsStream'
  BY <1>0, <1>2, AllocEffect, UndisturbedStream
<1>3. ASSUME NEW j \in Job, NEW final \in BOOLEAN, jobmanager_free_cb(j, final) PROVE FcfsStream'
  <2>1. Undisturbed(q, q') /\ UNCHANGED <<reqs, resps>>
    <3> DEFINE held == rjobs[j] \in {"ALLOCATED", "ALLOC_ERROR"}
    <3>1. CASE q' = q
      BY <1>3, <3>1 DEF jobmanager_free_cb, Undisturbed
    <3>2. CASE \E ok, full : q' = remove(q, j, final, ok, full)
      <4>1. QInv(q)
        BY <1>0 DEF IInv
      <4>2. PICK ok, full : q' = remove(q, j, final, ok, full)
        BY <3>2
      <4>3. Undisturbed(q, q')
        BY <4>1, <4>2, RemoveInv
      <4> QED BY <1>3, <4>3 DEF jobmanager_free_cb
    <3> QED BY <1>3, <3>1, <3>2, Zenon DEF jobmanager_free_cb
  <2> QED BY <2>1, UndisturbedStream
<1>4. FcfsStream'
  BY <1>0, <1>1, <1>2, <1>3, QuietSteps, ContStream, CheckStream, ServiceStream DEF Next
<1> QED BY <1>0, <1>4 DEF SInv

\* The order of the stream holds in every reachable state.
THEOREM StreamInvariance == Spec => []SInv
<1>1. Init => SInv
  <2> SUFFICES ASSUME Init PROVE SInv
    OBVIOUS
  <2>1. reqs = << >> /\ resps = << >>
    BY DEF Init
  <2> QED BY <2>1, InitInv DEF SInv, FcfsStream, RequestsFollow, ResponsesFollow
<1>2. SInv /\ [Next]_vars => SInv'
  BY NextStream
<1> QED BY <1>1, <1>2, PTL DEF Spec

\* Under every policy a match verdict finds the loop that asked for it active and
\* the iterator on the job it is about: handle_match_success never sees another
\* job, and handle_match_failure, whose response names none, rejects or blocks
\* the job that was matched.
THEOREM Verdicts == Spec => []VerdictFitsIterator
<1>1. SInv => VerdictFitsIterator
  <2> SUFFICES ASSUME SInv PROVE VerdictFitsIterator
    OBVIOUS
  <2>0. IInv /\ QInv(q) /\ TypeOK /\ Channels
    BY DEF SInv, IInv
  <2>1. CASE Policy # "fcfs"
    BY <2>0, <2>1 DEF Channels, BackfillChannels, VerdictFitsIterator, FirstVerdict, EndOfStream
  <2>2. CASE Policy = "fcfs"
    <3>1. ASSUME NEW i \in FirstVerdict
          PROVE  /\ q.active /\ q.iter # Nil
                 /\ resps[i].kind = "ok" => resps[i].job = q.iter
      <4> DEFINE M == Success \cup Failure
      <4>1. resps \in Seq(M) /\ resps # << >> /\ i \in DOMAIN resps
        BY <2>0, <3>1 DEF TypeOK, FirstVerdict
      <4>2. resps[i] \in M
        BY <4>1, <2>0 DEF TypeOK
      <4> HIDE DEF M
      <4>3. Len(resps) \in Nat /\ Len(resps) >= 1 /\ DOMAIN resps = 1..Len(resps)
        BY <4>1, HeadTail
      <4>4. /\ q.active
            /\ \A k \in DOMAIN resps : resps[k].kind = "err" <=> k = Len(resps)
            /\ resps[Len(resps)].err # "ENODATA" => Len(resps) <= Cardinality(q.pending)
        BY <2>0, <2>2, <4>1 DEF Channels, FcfsChannels
      <4>5. i = 1
        <5>1. CASE i # 1
          <6>1. 1 \in 1..(i - 1) /\ 1 \in DOMAIN resps
            BY <4>1, <4>3, <5>1
          <6>2. resps[1] = [kind |-> "err", err |-> "ENODATA"]
            BY <3>1, <6>1 DEF FirstVerdict
          <6>3. resps[1].kind = "err"
            BY <6>2
          <6>4. Len(resps) = 1
            BY <4>4, <6>1, <6>3
          <6> QED BY <4>1, <4>3, <5>1, <6>4
        <5> QED BY <5>1
      <4>6. CASE resps[1].kind = "ok"
        <5>1. resps[1].job = q.iter
          BY <2>2, <4>1, <4>6, HeadIsIterator
        <5>2. q.iter \in Job
          BY <4>2, <4>5, <4>6, <5>1, MessageTypes DEF M
        <5> QED BY <4>4, <4>5, <5>1, <5>2, BaseAssumption
      <4>7. CASE resps[1].kind # "ok"
        <5>1. resps[1].kind = "err" /\ resps[1].err # "ENODATA" /\ Len(resps) = 1
          <6>1. resps[1].kind = "err" /\ resps[1] = [kind |-> "err", err |-> resps[1].err]
            BY <4>2, <4>5, <4>7, MessageTypes DEF M
          <6>2. resps[1] # [kind |-> "err", err |-> "ENODATA"]
            BY <3>1, <4>5 DEF FirstVerdict
          <6> QED BY <4>3, <4>4, <6>1, <6>2
        <5>2. 1 <= Cardinality(q.pending)
          BY <4>4, <5>1
        <5>3. q.pending # {}
          BY <5>2, FS_EmptySet
        <5>4. BeginOf(q.pending) \in {e.id : e \in q.pending}
          BY <2>0, <5>3, MapFinite, BeginExists
        <5>5. BeginOf(q.pending) \in Job
          BY <2>0, <5>4, KeysDistinct
        <5>6. q.iter = BeginOf(q.pending)
          BY <2>0, <2>2, <4>4 DEF QInv, Cursor
        <5> QED BY <4>4, <4>5, <4>7, <5>5, <5>6, BaseAssumption
      <4> QED BY <4>6, <4>7
    <3> QED BY <2>0, <3>1 DEF Channels, VerdictFitsIterator
  <2> QED BY <2>1, <2>2
<1> QED BY <1>1, StreamInvariance, PTL

=============================================================================
