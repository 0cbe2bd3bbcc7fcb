------------------------------ MODULE Qmanager ------------------------------
(***************************************************************************)
(* The queue manager (sched-fluxion-qmanager) with one queue, composed     *)
(* with the resource module and the job manager.                           *)
(*                                                                         *)
(* The queue manager is single threaded: every action below is one         *)
(* callback run to completion by its reactor.  Callbacks interleave freely *)
(* with the resource module and with each other, except that the prepare   *)
(* and the check watcher alternate.                                        *)
(*                                                                         *)
(* match_multi is asynchronous: its request and its stream of responses    *)
(* travel through FIFO channels.  cancel and partial-cancel block the      *)
(* queue manager until the resource module has answered, which it does     *)
(* after the match requests sent before: they are one step, taken when     *)
(* reqs is empty.                                                          *)
(*                                                                         *)
(* The job manager is external.  It is modelled by the requests it may     *)
(* send and by jm, what it knows of each job:                              *)
(*   "idle"     no alloc request is outstanding                            *)
(*   "waiting"  an alloc request awaits its answer                         *)
(*   "alloced"  the job holds resources                                    *)
(*   "gone"     the job was denied or has released its resources           *)
(***************************************************************************)
EXTENDS ResourceService, QueuePolicyFcfs, QueuePolicyBackfill

CONSTANTS
    MaxInserts,     (* bound: alloc requests in a behaviour                  *)
    MaxDeferred     (* bound: length of each list of deferred requests       *)

ASSUME BoundAssumption == MaxInserts \in Nat /\ MaxDeferred \in Nat

VARIABLES
    q,          (* the queue                                                 *)
    pls,        (* what the prepare watcher asked of the check watcher       *)
    jm,         (* the job manager's view of each job                        *)
    est         (* the start-time estimate the job manager shows, 0 if none  *)

vars == <<q, pls, jm, est, rjobs, reqs, resps>>

resource == <<rjobs, reqs, resps>>

\* Which watcher runs next, and the flags the prepare watcher set for the check
\* watcher.
Phase == [next : {"prep", "check"}, sched : BOOLEAN, post : BOOLEAN]

AwaitPrep == [next |-> "prep", sched |-> FALSE, post |-> FALSE]

TypeOK ==
    /\ q \in QueueState
    /\ pls \in Phase
    /\ jm \in [Job -> {"idle", "waiting", "alloced", "gone"}]
    /\ est \in [Job -> Nat]
    /\ rjobs \in [Job -> RJobState]
    /\ reqs \in Seq([jobs : Seq(Job), reserve : BOOLEAN])
    /\ resps \in Seq(Success \cup Failure)

-----------------------------------------------------------------------------
(* The job manager's requests.                                             *)

\* A request that is refused before it reaches a queue (malformed jobspec,
\* unknown queue) is answered on the spot.
jobmanager_alloc_cb(j, p) ==
    /\ jm[j] = "idle"
    /\ q.pqCnt < MaxInserts
    /\ \/ /\ q.state[j] = "NONE"
          /\ q' = insert(q, j, calc_priority(p))
          /\ jm' = [jm EXCEPT ![j] = "waiting"]
       \/ /\ jm' = [jm EXCEPT ![j] = "gone"]
          /\ UNCHANGED q
    /\ UNCHANGED <<pls, est, resource>>

\* ctx->find_queue fails for a job the queue does not know.
jobmanager_free_cb(j, final) ==
    /\ jm[j] = "alloced"
    /\ jm' = [jm EXCEPT ![j] = IF final THEN "gone" ELSE @]
    /\ \/ /\ q.state[j] = "NONE"
          /\ UNCHANGED <<q, rjobs>>
       \/ /\ q.state[j] # "NONE"
          /\ reqs = << >>
          /\ \E fails \in {FALSE, RemoveMayFail}, full \in {final, TRUE} :
                LET held == rjobs[j] \in {"ALLOCATED", "ALLOC_ERROR"}
                IN  /\ q' = remove(q, j, final, ~(held /\ fails), held /\ full)
                    /\ rjobs' = IF final
                                THEN cancel_request_cb(rjobs, j, fails)
                                ELSE partial_cancel_request_cb(rjobs, j, fails, full)
    /\ UNCHANGED <<pls, est, reqs, resps>>

jobmanager_cancel_cb(j) ==
    /\ q.state[j] = "PENDING"
    /\ Len(q.cancelProv) < MaxDeferred
    /\ q' = remove_pending(q, j)
    /\ UNCHANGED <<pls, jm, est, resource>>

jobmanager_prioritize_cb(j, p) ==
    /\ q.state[j] = "PENDING"
    /\ Len(q.reprioProv) < MaxDeferred
    /\ q' = pending_reprioritize(q, j, calc_priority(p))
    /\ UNCHANGED <<pls, jm, est, resource>>

\* A notify response of the resource module: the status of resources changed.
update_on_resource_response ==
    /\ q' = resource_changed(q)
    /\ UNCHANGED <<pls, jm, est, resource>>

-----------------------------------------------------------------------------
(* Match responses.                                                        *)

run_sched_loop(ok) ==
    IF Policy = "fcfs" THEN fcfs_run_sched_loop(q) ELSE bf_run_sched_loop(q, ok)

handle_match_success(m) ==
    IF Policy = "fcfs"
    THEN LET r == fcfs_handle_match_success(q, m.job)
         IN  [q |-> r.q, send |-> << >>, rc |-> r.rc]
    ELSE bf_handle_match_success(q, m.job, m.status, m.at)

handle_match_failure(m) ==
    IF Policy = "fcfs"
    THEN [q |-> fcfs_handle_match_failure(q, m.err), send |-> << >>]
    ELSE bf_handle_match_failure(q, m.err)

\* What is left of the channel when the stream of its head is abandoned.
DropStream(s) ==
    LET ends == {i \in DOMAIN s : s[i].kind = "err"}
        last == CHOOSE i \in ends : \A k \in ends : i <= k
    IN  SubSeq(s, last + 1, Len(s))

match_allocate_multi_cont ==
    /\ resps # << >>
    /\ LET m == Head(resps)
       IN  \/ /\ m.kind = "ok"
              /\ LET r == handle_match_success(m)
                 IN  /\ q' = IF r.rc \/ ~r.q.active THEN r.q ELSE EndSchedLoop(r.q)
                     /\ reqs' = reqs \o r.send
                     /\ resps' = IF r.rc THEN Tail(resps) ELSE DropStream(resps)
           \/ /\ m.kind = "err"
              /\ LET r == handle_match_failure(m)
                 IN  /\ q' = r.q
                     /\ reqs' = reqs \o r.send
                     /\ resps' = Tail(resps)
    /\ UNCHANGED <<pls, jm, est, rjobs>>

-----------------------------------------------------------------------------
(* The reactor.                                                            *)

\* Variant: decisions alone do not make the check watcher post.
prep_watcher_cb_deaf ==
    /\ pls.next = "prep"
    /\ pls' = [next |-> "check", sched |-> q.schedulable, post |-> q.dirty]
    /\ UNCHANGED <<q, jm, est, resource>>

prep_watcher_cb ==
    /\ pls.next = "prep"
    /\ pls' = [next |-> "check", sched |-> q.schedulable,
               post |-> q.scheduled \/ q.dirty]
    /\ UNCHANGED <<q, jm, est, resource>>

\* Answer every job that was allocated, rejected or canceled, and annotate the
\* jobs within the queue depth whose estimate changed since it was last sent.
\* A rejected job stays in m_jobs.
post_sched_loop(r) ==
    LET changed == {j \in IdsOf(WithinDepth(r.pending)) :
                        r.sched[j].at # r.sched[j].oldAt}
    IN  /\ q' = [r EXCEPT
                    !.alloced = {}, !.rejected = {}, !.canceled = {},
                    !.state = [j \in Job |-> IF j \in r.canceled THEN "NONE" ELSE @[j]],
                    !.sched = [j \in Job |-> IF j \in changed
                                             THEN [@[j] EXCEPT !.oldAt = r.sched[j].at]
                                             ELSE @[j]],
                    !.scheduled = FALSE, !.dirty = FALSE]
        /\ jm' = [j \in Job |-> IF j \in r.alloced THEN "alloced"
                                ELSE IF j \in r.rejected THEN "gone"
                                ELSE IF j \in r.canceled THEN "idle"
                                ELSE jm[j]]
        /\ est' = [j \in Job |-> IF j \in r.alloced \cup r.rejected \cup r.canceled THEN 0
                                 ELSE IF j \in changed THEN r.sched[j].at
                                 ELSE est[j]]

\* cancel_reserved_jobs cancels the reservations of the last loop one by one;
\* those in failed cannot be removed.
check_watcher_cb ==
    /\ pls.next = "check"
    /\ pls' = AwaitPrep
    /\ \/ /\ ~pls.sched /\ ~pls.post
          /\ UNCHANGED <<q, jm, est, rjobs, reqs>>
       \/ /\ ~pls.sched /\ pls.post
          /\ post_sched_loop(q)
          /\ UNCHANGED <<rjobs, reqs>>
       \/ /\ pls.sched
          /\ \E failed \in IF RemoveMayFail THEN SUBSET q.reserved ELSE {{}} :
                LET old == IF q.active THEN {} ELSE q.reserved
                    ok  == \A j \in old : Removable(rjobs, j) /\ j \notin failed
                    r   == run_sched_loop(ok)
                IN  /\ rjobs' = [j \in Job |->
                                    IF j \in old
                                    THEN cancel_request_cb(rjobs, j, j \in failed)[j]
                                    ELSE rjobs[j]]
                    /\ reqs' = reqs \o r.send
                    /\ \/ ok /\ post_sched_loop(r.q)
                       \/ ~ok /\ q' = r.q /\ UNCHANGED <<jm, est>>
    /\ UNCHANGED resps

-----------------------------------------------------------------------------
(* The specification.                                                      *)

\* The handshakes: the resource module reports its status and the job manager
\* the jobs that hold resources, which are taken over as running.
Init ==
    /\ \E S \in SUBSET Job :
          /\ q = reconstruct_queue(resource_changed(EmptyQueue), S)
          /\ jm = [j \in Job |-> IF j \in S THEN "alloced" ELSE "idle"]
          /\ rjobs = [j \in Job |-> IF j \in S THEN "ALLOCATED" ELSE "NONE"]
    /\ pls = AwaitPrep
    /\ est = [j \in Job |-> 0]
    /\ reqs = << >>
    /\ resps = << >>

MatchService == match_multi_request_cb /\ UNCHANGED <<q, pls, jm, est>>

Next ==
    \/ \E j \in Job, p \in Priority : jobmanager_alloc_cb(j, p)
    \/ \E j \in Job, final \in BOOLEAN : jobmanager_free_cb(j, final)
    \/ \E j \in Job : jobmanager_cancel_cb(j)
    \/ \E j \in Job, p \in Priority : jobmanager_prioritize_cb(j, p)
    \/ update_on_resource_response
    \/ match_allocate_multi_cont
    \/ prep_watcher_cb
    \/ check_watcher_cb
    \/ MatchService

Spec == Init /\ [][Next]_vars

\* The reactor of the queue manager keeps running its watchers and delivering
\* the responses that have arrived, and the resource module keeps serving its
\* requests.  Nothing is assumed of the job manager or of resource events.  Each
\* conjunct names a callback by what only it does: CheckTurn is a step of
\* check_watcher_cb, Delivery of match_allocate_multi_cont, Service of
\* MatchService.
CheckTurn == pls.next = "check" /\ pls' = AwaitPrep

Delivery == resps # << >> /\ resps' = Tail(resps)

Service == reqs # << >> /\ reqs' = Tail(reqs)

Fairness ==
    /\ WF_vars(prep_watcher_cb)
    /\ WF_pls(CheckTurn)
    /\ WF_resps(Delivery)
    /\ WF_reqs(Service)

FairSpec == Spec /\ Fairness

-----------------------------------------------------------------------------
(* Safety properties.                                                      *)

\* A job is pending exactly when one of m_pending, m_blocked and
\* m_pending_provisional holds it, and then only one of them does, once, under
\* the job's current key: erase_pending_job and the merges between the maps
\* rely on it while priorities change, loops run and requests are deferred.
PendingPartition == Partitioned(q)

\* No alloc request is lost and none is answered twice: while the job manager
\* waits, the job is pending or in exactly one of the queues of answers that
\* post_sched_loop drains; otherwise it is in none of these places, and no
\* start-time estimate is shown for it any more.
RequestTracked ==
    \A j \in Job :
        LET places == {m \in {"pending", "alloced", "rejected", "canceled"} :
                          CASE m = "pending"  -> q.state[j] = "PENDING"
                            [] m = "alloced"  -> j \in q.alloced
                            [] m = "rejected" -> j \in q.rejected
                            [] m = "canceled" -> j \in q.canceled}
        IN  /\ Cardinality(places) = IF jm[j] = "waiting" THEN 1 ELSE 0
            /\ est[j] # 0 => jm[j] = "waiting"

\* The position of the first response that is not the ENODATA of a stream.
FirstVerdict ==
    {i \in DOMAIN resps :
        /\ resps[i] # [kind |-> "err", err |-> "ENODATA"]
        /\ \A k \in 1..(i - 1) : resps[k] = [kind |-> "err", err |-> "ENODATA"]}

\* A match verdict always finds the loop that asked for it still active, with
\* the iterator on the job the verdict is about: failure responses do not name
\* their job, so a shifted iterator would reject or block the wrong one.  When
\* no loop is active nothing but ends of streams is in flight.
VerdictFitsIterator ==
    /\ \A i \in FirstVerdict : /\ q.active
                               /\ q.iter # Nil
                               /\ resps[i].kind = "ok" => resps[i].job = q.iter
    /\ ~q.active => reqs = << >>

InFlight(j, status) ==
    \E i \in DOMAIN resps : /\ resps[i].kind = "ok"
                            /\ resps[i].job = j
                            /\ resps[i].status = status

\* The resource module and the queue agree on who holds what, up to responses
\* in flight: an allocation belongs to a running job, a reservation to a job
\* in m_reserved, and a running job holds its allocation unless its removal
\* failed.  Otherwise resources would leak, or the next match of the job would
\* be refused as "existent".
ResourceAgreement ==
    \A j \in Job :
        /\ rjobs[j] = "ALLOCATED" <=>
              (j \in q.running /\ rjobs[j] \notin {"ERROR", "ALLOC_ERROR"})
              \/ InFlight(j, "ALLOCATED")
        /\ rjobs[j] = "RESERVED" => j \in q.reserved \/ InFlight(j, "RESERVED")
        /\ j \in q.reserved => rjobs[j] = "RESERVED"

\* When no scheduling loop is active, no request that was deferred because of
\* one is left behind.
DeferredDrained ==
    ~q.active => q.cancelProv = << >> /\ q.reprioProv = << >> /\ ~q.reconsider

\* A job waiting for the next loop in m_pending_provisional keeps the queue
\* schedulable, whatever loops start or end meanwhile.
NoLostWakeup == q.provisional # {} => q.schedulable

\* The loop reserves at most ReservationDepth jobs, all of them pending, and
\* counts them correctly.
ReservationBound ==
    /\ Cardinality(q.reserved) <= ReservationDepth
    /\ q.active => q.reservationCnt = Cardinality(q.reserved)

-----------------------------------------------------------------------------
(* Action properties.                                                      *)

Started == {j \in q'.alloced \ q.alloced : q.state[j] = "PENDING"}

\* The pending jobs ahead of job j in the queue.
Ahead(j) ==
    {e.id : e \in {f \in q.pending : \E g \in q.pending : g.id = j /\ Before(f, g)}}

\* fcfs never starts a job past a job that is ahead of it in m_pending.
FcfsOrder == [][\A j \in Started : Ahead(j) = {}]_vars

\* A backfill policy starts a job only past jobs that hold a reservation, or
\* that were tried after the reservation depth was exhausted.
BackfillOrder ==
    [][\A j \in Started :
          Ahead(j) \subseteq q.reserved \/ q.reservationCnt = ReservationDepth]_vars

-----------------------------------------------------------------------------
(* Liveness, under FairSpec.                                               *)

\* Every scheduling loop ends, however requests keep arriving during it.
LoopEnds == q.active ~> ~q.active

\* A job that was submitted is eventually merged into m_pending, where the
\* scheduling loop sees it, or is canceled.
SubmissionConsidered ==
    \A j \in Job : (j \in IdsOf(q.provisional)) ~> (j \notin IdsOf(q.provisional))

\* Every decision about a job reaches the job manager.
DecisionAnswered ==
    \A j \in Job :
        (j \in q.alloced \cup q.rejected \cup q.canceled) ~> (jm[j] # "waiting")

\* A job whose cancellation had to be deferred is answered: as canceled, or as
\* whatever the loop decided about it first.
CancelAnswered ==
    \A j \in Job :
        (\E i \in DOMAIN q.cancelProv : q.cancelProv[i] = j /\ jm[j] = "waiting")
            ~> (jm[j] # "waiting")

=============================================================================
