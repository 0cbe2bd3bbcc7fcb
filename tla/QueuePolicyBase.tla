--------------------------- MODULE QueuePolicyBase ---------------------------
(***************************************************************************)
(* The state of one queue of the queue manager and the methods that every  *)
(* queueing policy inherits (class queue_policy_base_t).                   *)
(*                                                                         *)
(* The state of a queue is one record q.  Each method is an operator that  *)
(* maps the record to the record the method leaves behind, so that a       *)
(* handler, which runs to completion in the reactor thread, is the         *)
(* composition of the methods it calls.                                    *)
(*                                                                         *)
(* Abstractions.  m_jobs is q.state: a job that is not in m_jobs has state *)
(* "NONE".  The maps keyed by (priority, t_submit, pending_ts) are sets of *)
(* entries that carry their own key.  The maps keyed by a sequence counter *)
(* (running, alloced, rejected, canceled) are sets of jobs: they are only  *)
(* ever drained as a whole.  Deferred requests keep their order.           *)
(***************************************************************************)
EXTENDS Naturals, Sequences, FiniteSets

CONSTANTS
    Job,                (* the job ids                                       *)
    Nil,                (* the end iterator of m_pending                     *)
    TSubmit,            (* the submission time of each job                   *)
    MaxPriority,        (* RFC 27's largest priority (4294967295 in the code) *)
    Policy,             (* the queue policy                                  *)
    QueueDepth,         (* m_queue_depth                                     *)
    ReservationDepth,   (* m_reservation_depth of the backfill policies      *)
    StartTime           (* the future start times a reservation may have     *)

ASSUME BaseAssumption ==
    /\ IsFiniteSet(Job)
    /\ Nil \notin Job
    /\ TSubmit \in [Job -> Nat]
    /\ MaxPriority \in Nat
    /\ Policy \in {"fcfs", "easy", "hybrid", "conservative"}
    /\ QueueDepth \in Nat \ {0}
    /\ ReservationDepth \in Nat \ {0}
    /\ StartTime \subseteq Nat \ {0}

Priority == 0..MaxPriority

JobState ==
    {"NONE", "PENDING", "REJECTED", "RUNNING", "ALLOC_RUNNING", "CANCELED"}

Entry == [prio : Priority, ts : Nat, id : Job]

\* The part of schedule_t that outlives a match while the job is pending.
Schedule == [at : Nat, oldAt : Nat, wasReserved : BOOLEAN]

NoSchedule == [at |-> 0, oldAt |-> 0, wasReserved |-> FALSE]

QueueState ==
    [state       : [Job -> JobState],
     prio        : [Job -> Priority],
     ts          : [Job -> Nat],
     sched       : [Job -> Schedule],
     pending     : SUBSET Entry,
     blocked     : SUBSET Entry,
     provisional : SUBSET Entry,
     cancelProv  : Seq(Job),
     reprioProv  : Seq([id : Job, prio : Priority]),
     reconsider  : BOOLEAN,
     running     : SUBSET Job,
     alloced     : SUBSET Job,
     rejected    : SUBSET Job,
     canceled    : SUBSET Job,
     reserved    : SUBSET Job,
     schedulable : BOOLEAN,
     scheduled   : BOOLEAN,
     dirty       : BOOLEAN,
     active      : BOOLEAN,
     pqCnt       : Nat,
     iter        : Job \cup {Nil},
     limit       : BOOLEAN,
     tryReserve  : BOOLEAN,
     reservationCnt : Nat,
     scheduledCnt   : Nat]

\* A queue that has just been constructed.
EmptyQueue ==
    [state       |-> [j \in Job |-> "NONE"],
     prio        |-> [j \in Job |-> 0],
     ts          |-> [j \in Job |-> 0],
     sched       |-> [j \in Job |-> NoSchedule],
     pending     |-> {}, blocked |-> {}, provisional |-> {},
     cancelProv  |-> << >>, reprioProv |-> << >>, reconsider |-> FALSE,
     running     |-> {}, alloced |-> {}, rejected |-> {}, canceled |-> {},
     reserved    |-> {},
     schedulable |-> FALSE, scheduled |-> FALSE, dirty |-> FALSE,
     active      |-> FALSE, pqCnt |-> 0,
     iter        |-> Nil, limit |-> FALSE, tryReserve |-> FALSE,
     reservationCnt |-> 0, scheduledCnt |-> 0]

-----------------------------------------------------------------------------
(* Keys and the ordered maps they index.                                   *)

\* Variant: the operands of the subtraction swapped.
calc_priority_swapped(p) == p - MaxPriority

\* Lower keys are scheduled first, so a high priority becomes a low number.
calc_priority(p) == MaxPriority - p

get_key(q, j) == [prio |-> q.prio[j], ts |-> q.ts[j], id |-> j]

\* The lexicographic order of pending_key = (priority, t_submit, pending_ts).
Before(e, f) ==
    \/ e.prio < f.prio
    \/ /\ e.prio = f.prio
       /\ \/ TSubmit[e.id] < TSubmit[f.id]
          \/ TSubmit[e.id] = TSubmit[f.id] /\ e.ts < f.ts

SameKey(e, f) ==
    e.prio = f.prio /\ TSubmit[e.id] = TSubmit[f.id] /\ e.ts = f.ts

HasKey(M, e) == \E f \in M : SameKey(f, e)

EraseKey(M, e) == {f \in M : ~SameKey(f, e)}

Emplace(M, e) == IF HasKey(M, e) THEN M ELSE M \cup {e}

Least(M) == {e \in M : \A f \in M : f = e \/ Before(e, f)}

\* The job at the beginning of a map, or Nil when the map is empty.
BeginOf(M) == IF Least(M) = {} THEN Nil ELSE (CHOOSE e \in Least(M) : TRUE).id

\* The job that follows job j in a map.
NextOf(M, j) == BeginOf({f \in M : \E e \in M : e.id = j /\ Before(e, f)})

Rank(M, e) == Cardinality({f \in M : Before(f, e)})

\* The jobs the scheduling loop considers: the first m_queue_depth of a map.
WithinDepth(M) == {e \in M : Rank(M, e) < QueueDepth}

IdsOf(M) == {e.id : e \in M}

\* A job is pending exactly when one of the three maps holds it, and then only
\* one of them does, once, under the job's current key.
Partitioned(q) ==
    /\ \A e \in q.pending \cup q.blocked \cup q.provisional :
          q.state[e.id] = "PENDING" /\ e = get_key(q, e.id)
    /\ \A j \in Job : q.state[j] = "PENDING" =>
          get_key(q, j) \in q.pending \cup q.blocked \cup q.provisional
    /\ q.pending \cap q.blocked = {}
    /\ q.pending \cap q.provisional = {}
    /\ q.blocked \cap q.provisional = {}

-----------------------------------------------------------------------------
(* Leaving the pending maps.                                               *)

\* A job that stops pending.  Its key and its estimate are never read again,
\* so they are forgotten.
Leave(q, j, s) ==
    [q EXCEPT !.state[j] = s, !.prio[j] = 0, !.ts[j] = 0,
              !.sched[j] = NoSchedule]

\* Erase the job's key from the first map that has it: m_pending, m_blocked,
\* m_pending_provisional.
erase_pending_job(q, j) ==
    LET e == get_key(q, j)
    IN  IF HasKey(q.pending, e)
        THEN [q EXCEPT !.pending = EraseKey(@, e)]
        ELSE IF HasKey(q.blocked, e)
        THEN [q EXCEPT !.blocked = EraseKey(@, e)]
        ELSE [q EXCEPT !.provisional = EraseKey(@, e)]

\* Some pending map holds the job under its current key: erase_pending_job
\* succeeds.
IsQueued(q, j) ==
    HasKey(q.pending \cup q.blocked \cup q.provisional, get_key(q, j))

\* The iterator's job becomes running and awaits its alloc response; the
\* iterator moves on to the next pending job.
to_running(q, j) ==
    [Leave(q, j, "ALLOC_RUNNING") EXCEPT
        !.running   = @ \cup {j},
        !.alloced   = @ \cup {j},
        !.scheduled = TRUE,
        !.iter      = NextOf(q.pending, j),
        !.pending   = {e \in @ : e.id # j}]

to_rejected(q, j) ==
    [Leave(q, j, "REJECTED") EXCEPT
        !.rejected  = @ \cup {j},
        !.scheduled = TRUE,
        !.iter      = NextOf(q.pending, j),
        !.pending   = {e \in @ : e.id # j}]

-----------------------------------------------------------------------------
(* Work that is deferred while a scheduling loop is active.                *)

process_provisional_reconsider(q) ==
    IF ~q.reconsider
    THEN q
    ELSE [q EXCEPT !.reconsider  = FALSE,
                   !.pending     = @ \cup q.blocked,
                   !.blocked     = {},
                   !.schedulable = @ \/ q.blocked # {}]

reconsider_blocked_jobs(q) ==
    LET r == [q EXCEPT !.reconsider = TRUE]
    IN  IF q.active THEN r ELSE process_provisional_reconsider(r)

\* The deferred requests ids[1], ids[2], ... are handled in order until one
\* names a job that is not in m_jobs.
Unknown(q, ids) == {i \in DOMAIN ids : q.state[ids[i]] = "NONE"}

Handled(q, ids) == {i \in DOMAIN ids : \A k \in Unknown(q, ids) : i < k}

\* Variant: the state of the job is not looked at again.
Effective_unchecked(q, ids) == Handled(q, ids)

\* The handled requests that find their job still pending.
Effective(q, ids) == {i \in Handled(q, ids) : q.state[ids[i]] = "PENDING"}

\* On an unknown job the method returns early and the list is not cleared.
Remaining(q, ids, list) == IF Unknown(q, ids) = {} THEN << >> ELSE list

ReprioIds(q) == [i \in DOMAIN q.reprioProv |-> q.reprioProv[i].id]

\* Variant: the first deferred priority wins.
NewPriority_first(q, j) ==
    LET mine  == {i \in Effective(q, ReprioIds(q)) : q.reprioProv[i].id = j}
        first == {i \in mine : \A k \in mine : i <= k}
    IN  IF first = {} THEN q.prio[j]
        ELSE q.reprioProv[CHOOSE i \in first : TRUE].prio

\* The last priority an effective request gives to job j.
NewPriority(q, j) ==
    LET mine == {i \in Effective(q, ReprioIds(q)) : q.reprioProv[i].id = j}
        last == {i \in mine : \A k \in mine : k <= i}
    IN  IF last = {} THEN q.prio[j]
        ELSE q.reprioProv[CHOOSE i \in last : TRUE].prio

\* Variant: the priority changes and the map keeps the old key.
Rekey_stale(q, M) == M

Rekey(q, M) == {[e EXCEPT !.prio = NewPriority(q, e.id)] : e \in M}

\* Each effective request erases its job under the old key and emplaces it
\* under the new one, in m_pending_provisional if it was there and in m_pending
\* otherwise, and then has the blocked jobs reconsidered.  Only called when no
\* scheduling loop is active.
process_provisional_reprio(q) ==
    LET some == Effective(q, ReprioIds(q)) # {}
    IN  [q EXCEPT
            !.prio        = [j \in Job |-> NewPriority(q, j)],
            !.pending     = Rekey(q, @ \cup (IF some THEN q.blocked ELSE {})),
            !.blocked     = IF some THEN {} ELSE @,
            !.provisional = Rekey(q, @),
            !.schedulable = @ \/ some,
            !.reconsider  = @ /\ ~some,
            !.reprioProv  = Remaining(q, ReprioIds(q), @)]

process_provisional_cancel(q) ==
    LET gone == {q.cancelProv[i] : i \in Effective(q, q.cancelProv)}
        Keep(M) == {e \in M : e.id \notin gone}
    IN  [q EXCEPT
            !.state       = [j \in Job |-> IF j \in gone THEN "CANCELED" ELSE @[j]],
            !.prio        = [j \in Job |-> IF j \in gone THEN 0 ELSE @[j]],
            !.ts          = [j \in Job |-> IF j \in gone THEN 0 ELSE @[j]],
            !.sched       = [j \in Job |-> IF j \in gone THEN NoSchedule ELSE @[j]],
            !.pending     = Keep(@),
            !.blocked     = Keep(@),
            !.provisional = Keep(@),
            !.canceled    = @ \cup gone,
            !.schedulable = @ \/ gone # {},
            !.cancelProv  = Remaining(q, q.cancelProv, @)]

\* Variant: the deferred cancellations are not carried out.
EndSchedLoop_nocancel(q) ==
    LET r == [q EXCEPT !.active = FALSE, !.iter = Nil, !.tryReserve = FALSE,
                       !.reservationCnt = 0, !.scheduledCnt = 0]
    IN  process_provisional_reconsider(process_provisional_reprio(r))

\* The scheduling loop ends (set_sched_loop_active (false)).  The iterator and
\* the counters of the loop are set anew by the next one, so they are forgotten.
EndSchedLoop(q) ==
    LET r == [q EXCEPT !.active = FALSE, !.iter = Nil, !.tryReserve = FALSE,
                       !.reservationCnt = 0, !.scheduledCnt = 0]
    IN  process_provisional_reconsider(
            process_provisional_cancel(process_provisional_reprio(r)))

\* Stop a loop early.  An fcfs loop cannot be stopped; a backfill loop is made
\* to end at its next response.  Either way the caller has to defer its work.
cancel_sched_loop(q) ==
    IF q.active /\ Policy # "fcfs"
    THEN [q EXCEPT !.scheduledCnt = QueueDepth]
    ELSE q

-----------------------------------------------------------------------------
(* The requests of the job manager.                                        *)

\* A new job waits in m_pending_provisional for the next scheduling loop.
insert(q, j, p) ==
    IF q.state[j] # "NONE"
    THEN q
    ELSE [q EXCEPT !.state[j] = "PENDING", !.prio[j] = p, !.ts[j] = q.pqCnt,
                   !.pqCnt = @ + 1,
                   !.provisional = Emplace(@, [prio |-> p, ts |-> q.pqCnt, id |-> j]),
                   !.schedulable = TRUE]

\* Variant: nothing is deferred while a loop is active.
remove_pending_now(q, j) ==
    IF ~IsQueued(q, j)
    THEN q
    ELSE [Leave(erase_pending_job(q, j), j, "CANCELED") EXCEPT
            !.canceled = @ \cup {j}, !.schedulable = TRUE]

remove_pending(q, j) ==
    IF q.active
    THEN [cancel_sched_loop(q) EXCEPT !.cancelProv = Append(@, j)]
    ELSE IF ~IsQueued(q, j)
    THEN q
    ELSE [Leave(erase_pending_job(q, j), j, "CANCELED") EXCEPT
            !.canceled = @ \cup {j}, !.schedulable = TRUE]

\* Variant: nothing is deferred while a loop is active.
pending_reprioritize_now(q, j, p) ==
    IF q.state[j] # "PENDING"
    THEN q
    ELSE process_provisional_reprio(
            [q EXCEPT !.reprioProv = Append(@, [id |-> j, prio |-> p])])

pending_reprioritize(q, j, p) ==
    IF q.state[j] # "PENDING"
    THEN q
    ELSE LET r == [q EXCEPT !.reprioProv = Append(@, [id |-> j, prio |-> p])]
         IN  IF q.active THEN cancel_sched_loop(r) ELSE process_provisional_reprio(r)

\* Variant: a partial release is taken for the last one.
remove_partial_as_full(q, j, final, ok, full) ==
    LET erased ==
            [Leave(q, j, "NONE") EXCEPT !.alloced = @ \ {j}, !.running = @ \ {j}]
        r == IF q.state[j] = "PENDING" THEN remove_pending(q, j)
             ELSE IF q.state[j] \in {"RUNNING", "ALLOC_RUNNING"} /\ ok
             THEN [erased EXCEPT !.schedulable = TRUE]
             ELSE q
    IN  reconsider_blocked_jobs(cancel_sched_loop(r))

\* Release (part of) an allocation.  ok: the resource module's answer to the
\* cancel request was not an error.  full: the allocation is gone altogether.
remove(q, j, final, ok, full) ==
    LET erased ==
            [Leave(q, j, "NONE") EXCEPT !.alloced = @ \ {j}, !.running = @ \ {j}]
        r == IF q.state[j] = "PENDING" THEN remove_pending(q, j)
             ELSE IF q.state[j] \in {"RUNNING", "ALLOC_RUNNING"} /\ ok
             THEN [(IF full \/ final THEN erased ELSE q) EXCEPT !.schedulable = TRUE]
             ELSE q
    IN  reconsider_blocked_jobs(cancel_sched_loop(r))

\* Jobs that already hold resources when the queue manager starts.
reconstruct_queue(q, S) ==
    [q EXCEPT !.state   = [j \in Job |-> IF j \in S THEN "RUNNING" ELSE @[j]],
              !.running = @ \cup S]

\* A resource status change, announced by the resource module.
resource_changed(q) == reconsider_blocked_jobs([q EXCEPT !.schedulable = TRUE])

=============================================================================
