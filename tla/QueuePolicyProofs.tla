------------------------- MODULE QueuePolicyProofs -------------------------
(***************************************************************************)
(* What the methods of a queue preserve.  QInv is the part of the          *)
(* inductive invariant that concerns one queue: Partitioned, and the three *)
(* facts that make it inductive.  Each lemma shows it for one method;      *)
(* Undisturbed adds, for the methods the job manager's requests call, that *)
(* an active loop keeps its iterator and its map.                          *)
(***************************************************************************)
EXTENDS QueuePolicyFcfs, QueuePolicyBackfill, FiniteSetTheorems, TLAPS

\* Pending jobs carry distinct stamps, all from the past.
Stamped(q) ==
    \A i \in Job : q.state[i] = "PENDING" =>
        /\ q.ts[i] < q.pqCnt
        /\ \A j \in Job : q.state[j] = "PENDING" /\ q.ts[j] = q.ts[i] => i = j

\* The iterator of a loop is on an entry of m_pending or at the end; under fcfs
\* it is always at the beginning.  Without a loop it is at the end.
Cursor(q) ==
    /\ q.iter # Nil => q.active /\ get_key(q, q.iter) \in q.pending
    /\ Policy = "fcfs" /\ q.active => q.iter = BeginOf(q.pending)

\* Jobs whose cancellation awaits its answer have left the maps.
Settled(q) == \A j \in q.canceled : q.state[j] = "CANCELED"

\* The invariant of one queue.
QInv(q) ==
    /\ q \in QueueState
    /\ Partitioned(q)
    /\ Stamped(q)
    /\ Cursor(q)
    /\ Settled(q)

\* What a request that arrives during a scheduling loop may not touch.
Undisturbed(q, r) ==
    r.active = q.active /\ (q.active => r.iter = q.iter /\ r.pending = q.pending)

-----------------------------------------------------------------------------
\* The types of the fields of a queue.
LEMMA Fields ==
    ASSUME NEW q \in QueueState
    PROVE  /\ q.state \in [Job -> JobState] /\ q.prio \in [Job -> Priority]
           /\ q.ts \in [Job -> Nat] /\ q.sched \in [Job -> Schedule]
           /\ q.pending \subseteq Entry /\ q.blocked \subseteq Entry
           /\ q.provisional \subseteq Entry
           /\ q.cancelProv \in Seq(Job)
           /\ q.reprioProv \in Seq([id : Job, prio : Priority])
           /\ q.pqCnt \in Nat /\ q.iter \in Job \cup {Nil}
           /\ q.running \subseteq Job /\ q.alloced \subseteq Job
           /\ q.rejected \subseteq Job /\ q.canceled \subseteq Job
           /\ q.reserved \subseteq Job
           /\ q.reservationCnt \in Nat /\ q.scheduledCnt \in Nat
           /\ q.reconsider \in BOOLEAN /\ q.schedulable \in BOOLEAN
           /\ q.scheduled \in BOOLEAN /\ q.dirty \in BOOLEAN
           /\ q.active \in BOOLEAN /\ q.limit \in BOOLEAN /\ q.tryReserve \in BOOLEAN
  BY DEF QueueState

\* Entries of the three maps carry distinct keys.
LEMMA KeysDistinct ==
    ASSUME NEW q, QInv(q),
           NEW e \in q.pending \cup q.blocked \cup q.provisional,
           NEW f \in q.pending \cup q.blocked \cup q.provisional
    PROVE  /\ e.id \in Job /\ e = get_key(q, e.id) /\ q.state[e.id] = "PENDING"
           /\ SameKey(e, f) <=> e = f
           /\ e.id = f.id <=> e = f
<1>1. e \in Entry /\ f \in Entry
  BY Fields DEF QInv
<1>2. e.id \in Job /\ f.id \in Job
  BY <1>1 DEF Entry
<1>3. /\ e = get_key(q, e.id) /\ q.state[e.id] = "PENDING"
      /\ f = get_key(q, f.id) /\ q.state[f.id] = "PENDING"
  BY DEF QInv, Partitioned
<1>4. e.ts = q.ts[e.id] /\ f.ts = q.ts[f.id]
  BY <1>3 DEF get_key
<1>5. SameKey(e, f) => e.id = f.id
  BY <1>2, <1>3, <1>4 DEF QInv, Stamped, SameKey
<1> QED BY <1>2, <1>3, <1>5 DEF SameKey

\* The job at the beginning of a map is the id of an entry that precedes all
\* others.
LEMMA BeginIn ==
    ASSUME NEW M, BeginOf(M) # Nil
    PROVE  \E e \in M : e.id = BeginOf(M) /\ \A f \in M : f = e \/ Before(e, f)
  BY DEF BeginOf, Least

\* The job that follows j in a map is the id of an entry after j's.
LEMMA NextIn ==
    ASSUME NEW M, NEW j, NextOf(M, j) # Nil
    PROVE  \E f \in M, e \in M : f.id = NextOf(M, j) /\ e.id = j /\ Before(e, f)
  BY BeginIn DEF NextOf

\* erase_pending_job takes a pending job out of the one map that holds it.
LEMMA ErasePending ==
    ASSUME NEW q, QInv(q), NEW j \in Job, q.state[j] = "PENDING"
    PROVE  LET e == get_key(q, j)
           IN  /\ IsQueued(q, j)
               /\ erase_pending_job(q, j) =
                    [q EXCEPT !.pending     = @ \ {e}, !.blocked = @ \ {e},
                              !.provisional = @ \ {e}]
<1> DEFINE e == get_key(q, j)
<1>1. e \in q.pending \cup q.blocked \cup q.provisional
  BY DEF QInv, Partitioned
<1>2. IsQueued(q, j)
  BY <1>1 DEF IsQueued, HasKey, SameKey
<1>3. ASSUME NEW M, M \subseteq q.pending \cup q.blocked \cup q.provisional
      PROVE  (HasKey(M, e) <=> e \in M) /\ EraseKey(M, e) = M \ {e}
  BY <1>1, <1>3, KeysDistinct DEF HasKey, EraseKey
<1>4. /\ q.pending \cap q.blocked = {}
      /\ q.pending \cap q.provisional = {}
      /\ q.blocked \cap q.provisional = {}
  BY DEF QInv, Partitioned
<1> HIDE DEF e
<1>5. CASE e \in q.pending
  <2>1. q.pending \ {e} = EraseKey(q.pending, e) /\ HasKey(q.pending, e)
    BY <1>3, <1>5
  <2>2. q.blocked \ {e} = q.blocked /\ q.provisional \ {e} = q.provisional
    BY <1>4, <1>5
  <2>3. [q EXCEPT !.pending = @ \ {e}, !.blocked = @ \ {e}, !.provisional = @ \ {e}]
        = [q EXCEPT !.pending = @ \ {e}]
    BY <2>2 DEF QInv, QueueState
  <2> QED BY <2>1, <2>3, <1>2 DEF erase_pending_job, e
<1>6. CASE e \in q.blocked
  <2>1. q.blocked \ {e} = EraseKey(q.blocked, e) /\ HasKey(q.blocked, e) /\ ~HasKey(q.pending, e)
    BY <1>3, <1>4, <1>6
  <2>2. q.pending \ {e} = q.pending /\ q.provisional \ {e} = q.provisional
    BY <1>4, <1>6
  <2>3. [q EXCEPT !.pending = @ \ {e}, !.blocked = @ \ {e}, !.provisional = @ \ {e}]
        = [q EXCEPT !.blocked = @ \ {e}]
    BY <2>2 DEF QInv, QueueState
  <2> QED BY <2>1, <2>3, <1>2 DEF erase_pending_job, e
<1>7. CASE e \in q.provisional
  <2>1. /\ q.provisional \ {e} = EraseKey(q.provisional, e)
        /\ ~HasKey(q.blocked, e) /\ ~HasKey(q.pending, e)
    BY <1>3, <1>4, <1>7
  <2>2. q.pending \ {e} = q.pending /\ q.blocked \ {e} = q.blocked
    BY <1>4, <1>7
  <2>3. [q EXCEPT !.pending = @ \ {e}, !.blocked = @ \ {e}, !.provisional = @ \ {e}]
        = [q EXCEPT !.provisional = @ \ {e}]
    BY <2>2 DEF QInv, QueueState
  <2> QED BY <2>1, <2>3, <1>2 DEF erase_pending_job, e
<1> QED BY <1>1, <1>5, <1>6, <1>7

-----------------------------------------------------------------------------
\* Fields other than these do not matter to the partition.
LEMMA SameInv ==
    ASSUME NEW q, QInv(q), NEW r \in QueueState,
           r.state = q.state, r.prio = q.prio, r.ts = q.ts, r.pqCnt = q.pqCnt,
           r.pending = q.pending, r.blocked = q.blocked, r.provisional = q.provisional,
           r.canceled = q.canceled,
           \/ r.iter = q.iter /\ r.active = q.active
           \/ r.iter = Nil /\ ~r.active
    PROVE  QInv(r)
<1>1. \A j : get_key(r, j) = get_key(q, j)
  BY DEF get_key
<1>2. Partitioned(r) /\ Stamped(r) /\ Settled(r)
  BY <1>1 DEF QInv, Partitioned, Stamped, Settled
<1>3. Cursor(r)
  BY <1>1 DEF QInv, Cursor
<1> QED BY <1>2, <1>3 DEF QInv

\* Job j taken out of whichever map holds it.
Without(q, j, s) ==
    [Leave(q, j, s) EXCEPT !.pending     = @ \ {get_key(q, j)},
                           !.blocked     = @ \ {get_key(q, j)},
                           !.provisional = @ \ {get_key(q, j)}]

\* Taking any job out of the three maps and giving it a state other than PENDING
\* keeps the partition; nothing else about the other jobs changes.
LEMMA WithoutInv ==
    ASSUME NEW q, QInv(q), NEW j \in Job, NEW s \in JobState \ {"PENDING"}
    PROVE  LET r == Without(q, j, s)
           IN  /\ r \in QueueState
               /\ Partitioned(r)
               /\ Stamped(r)
               /\ \A i \in Job \ {j} : get_key(r, i) = get_key(q, i)
               /\ r.state[j] = s /\ \A i \in Job \ {j} : r.state[i] = q.state[i]
               /\ r.pending = q.pending \ {get_key(q, j)}
               /\ r.blocked = q.blocked \ {get_key(q, j)}
               /\ r.provisional = q.provisional \ {get_key(q, j)}
               /\ r.active = q.active /\ r.iter = q.iter /\ r.canceled = q.canceled
<1> DEFINE e == get_key(q, j)
           r == Without(q, j, s)
<1>0. q \in QueueState /\ Partitioned(q) /\ Stamped(q)
  BY DEF QInv
<1>1. /\ [q.state EXCEPT ![j] = s] \in [Job -> JobState]
      /\ [q.prio EXCEPT ![j] = 0] \in [Job -> Priority]
      /\ [q.ts EXCEPT ![j] = 0] \in [Job -> Nat]
      /\ [q.sched EXCEPT ![j] = NoSchedule] \in [Job -> Schedule]
  BY <1>0, Fields, BaseAssumption DEF NoSchedule, Schedule, Priority
<1>2. r = [q EXCEPT !.state = [q.state EXCEPT ![j] = s],
                    !.prio  = [q.prio EXCEPT ![j] = 0],
                    !.ts    = [q.ts EXCEPT ![j] = 0],
                    !.sched = [q.sched EXCEPT ![j] = NoSchedule],
                    !.pending = @ \ {e}, !.blocked = @ \ {e}, !.provisional = @ \ {e}]
  BY DEF Without, Leave
<1> HIDE DEF e, r
<1>3. r \in QueueState
  BY <1>0, <1>1, <1>2 DEF QueueState
<1>4. /\ r.state = [q.state EXCEPT ![j] = s] /\ r.prio = [q.prio EXCEPT ![j] = 0]
      /\ r.ts = [q.ts EXCEPT ![j] = 0] /\ r.pqCnt = q.pqCnt
      /\ r.pending = q.pending \ {e} /\ r.blocked = q.blocked \ {e}
      /\ r.provisional = q.provisional \ {e}
      /\ r.active = q.active /\ r.iter = q.iter /\ r.canceled = q.canceled
  BY <1>0, <1>2 DEF QueueState
<1>5. \A i \in Job \ {j} : get_key(r, i) = get_key(q, i)
  BY <1>0, <1>4, Fields DEF get_key
<1>6. \A f \in q.pending \cup q.blocked \cup q.provisional :
        f # e => f.id \in Job \ {j}
  BY KeysDistinct DEF e
<1>7. \A i \in Job \ {j} : get_key(q, i) # e
  BY DEF e, get_key
<1>8. Partitioned(r)
  <2>1. ASSUME NEW f \in r.pending \cup r.blocked \cup r.provisional
        PROVE  r.state[f.id] = "PENDING" /\ f = get_key(r, f.id)
    BY <1>0, <1>4, <1>5, <1>6, Fields DEF Partitioned
  <2>2. ASSUME NEW i \in Job, r.state[i] = "PENDING"
        PROVE  get_key(r, i) \in r.pending \cup r.blocked \cup r.provisional
    BY <1>0, <1>4, <1>5, <1>7, <2>2, Fields DEF Partitioned
  <2> QED BY <1>0, <1>4, <2>1, <2>2 DEF Partitioned
<1>9. Stamped(r)
  BY <1>0, <1>4, Fields DEF Stamped
<1>10. r.state[j] = s /\ \A i \in Job \ {j} : r.state[i] = q.state[i]
  BY <1>0, <1>4, Fields
<1> QED BY <1>3, <1>4, <1>5, <1>8, <1>9, <1>10 DEF e, r

-----------------------------------------------------------------------------
\* process_provisional_reconsider moves the blocked jobs to m_pending.
LEMMA ReconsiderInv ==
    ASSUME NEW q, QInv(q), ~q.active
    PROVE  QInv(process_provisional_reconsider(q)) /\ ~process_provisional_reconsider(q).active
<1> DEFINE r == [q EXCEPT !.reconsider  = FALSE,
                          !.pending     = @ \cup q.blocked,
                          !.blocked     = {},
                          !.schedulable = @ \/ q.blocked # {}]
<1> SUFFICES QInv(r) /\ ~r.active
  BY DEF process_provisional_reconsider
<1>0. q \in QueueState /\ Partitioned(q) /\ Stamped(q) /\ Cursor(q) /\ Settled(q)
  BY DEF QInv
<1>1. r \in QueueState
  BY <1>0, ZenonT(60) DEF QueueState
<1>2. /\ r.state = q.state /\ r.prio = q.prio /\ r.ts = q.ts /\ r.pqCnt = q.pqCnt
      /\ r.pending = q.pending \cup q.blocked /\ r.blocked = {}
      /\ r.provisional = q.provisional /\ r.iter = q.iter /\ r.active = q.active
      /\ r.canceled = q.canceled
  BY <1>0 DEF QueueState
<1> HIDE DEF r
<1>3. Partitioned(r)
  BY <1>0, <1>2 DEF Partitioned, get_key
<1>4. Stamped(r)
  BY <1>0, <1>2 DEF Stamped
<1>5. Cursor(r) /\ Settled(r)
  BY <1>0, <1>2 DEF Cursor, Settled
<1> QED BY <1>1, <1>2, <1>3, <1>4, <1>5 DEF QInv

\* reconsider_blocked_jobs, which defers to the end of an active loop.
LEMMA ReconsiderBlockedInv ==
    ASSUME NEW q, QInv(q)
    PROVE  QInv(reconsider_blocked_jobs(q)) /\ Undisturbed(q, reconsider_blocked_jobs(q))
<1> DEFINE r == [q EXCEPT !.reconsider = TRUE]
<1>0. q \in QueueState /\ Partitioned(q) /\ Stamped(q) /\ Cursor(q) /\ Settled(q)
  BY DEF QInv
<1>1. r \in QueueState
  BY <1>0 DEF QueueState
<1>2. /\ r.state = q.state /\ r.prio = q.prio /\ r.ts = q.ts /\ r.pqCnt = q.pqCnt
      /\ r.pending = q.pending /\ r.blocked = q.blocked
      /\ r.provisional = q.provisional /\ r.iter = q.iter /\ r.active = q.active
      /\ r.canceled = q.canceled
  BY <1>0 DEF QueueState
<1> HIDE DEF r
<1>3. QInv(r)
  BY <1>1, <1>2, SameInv
<1> QED BY <1>0, <1>2, <1>3, ReconsiderInv, Fields DEF reconsider_blocked_jobs, Undisturbed, QInv, r

\* cancel_sched_loop keeps the invariant and the iterator.
LEMMA CancelLoopInv ==
    ASSUME NEW q, QInv(q)
    PROVE  QInv(cancel_sched_loop(q)) /\ Undisturbed(q, cancel_sched_loop(q))
<1> DEFINE r == [q EXCEPT !.scheduledCnt = QueueDepth]
<1>0. q \in QueueState /\ Partitioned(q) /\ Stamped(q) /\ Cursor(q) /\ Settled(q)
  BY DEF QInv
<1>1. r \in QueueState
  BY <1>0, BaseAssumption DEF QueueState
<1>2. /\ r.state = q.state /\ r.prio = q.prio /\ r.ts = q.ts /\ r.pqCnt = q.pqCnt
      /\ r.pending = q.pending /\ r.blocked = q.blocked
      /\ r.provisional = q.provisional /\ r.iter = q.iter /\ r.active = q.active
      /\ r.canceled = q.canceled
  BY <1>0 DEF QueueState
<1> HIDE DEF r
<1>3. QInv(r)
  BY <1>1, <1>2, SameInv
<1> QED BY <1>2, <1>3 DEF cancel_sched_loop, Undisturbed, r

\* insert: the stamp of the new job is fresh, so its key clashes with no other.
LEMMA InsertInv ==
    ASSUME NEW q, QInv(q), NEW j \in Job, NEW p \in Priority
    PROVE  QInv(insert(q, j, p)) /\ Undisturbed(q, insert(q, j, p))
<1> SUFFICES ASSUME q.state[j] = "NONE"
             PROVE  QInv(insert(q, j, p)) /\ Undisturbed(q, insert(q, j, p))
  BY DEF insert, Undisturbed
<1> DEFINE e == [prio |-> p, ts |-> q.pqCnt, id |-> j]
           r == insert(q, j, p)
<1>0. q \in QueueState /\ Partitioned(q) /\ Stamped(q) /\ Cursor(q) /\ Settled(q)
  BY DEF QInv
<1>a. /\ [q.state EXCEPT ![j] = "PENDING"] \in [Job -> JobState]
      /\ [q.prio EXCEPT ![j] = p] \in [Job -> Priority]
      /\ [q.ts EXCEPT ![j] = q.pqCnt] \in [Job -> Nat]
      /\ q.pqCnt \in Nat /\ q.pqCnt + 1 \in Nat
      /\ q.provisional \cup {e} \in SUBSET Entry
  BY <1>0, Fields DEF JobState, Entry
<1>1. ~HasKey(q.provisional, e)
  <2>1. ASSUME NEW f \in q.provisional PROVE f.ts < q.pqCnt
    BY KeysDistinct, <1>0 DEF Stamped, get_key
  <2> QED BY <2>1, <1>a DEF HasKey, SameKey
<1>2. r = [q EXCEPT !.state = [q.state EXCEPT ![j] = "PENDING"],
                    !.prio  = [q.prio EXCEPT ![j] = p],
                    !.ts    = [q.ts EXCEPT ![j] = q.pqCnt],
                    !.pqCnt = q.pqCnt + 1, !.provisional = q.provisional \cup {e},
                    !.schedulable = TRUE]
  BY <1>1 DEF insert, Emplace
<1>3. r \in QueueState
  <2> HIDE DEF e, r
  <2> QED BY <1>0, <1>a, <1>2, ZenonT(60) DEF QueueState
<1>4. /\ r.state = [q.state EXCEPT ![j] = "PENDING"]
      /\ r.prio = [q.prio EXCEPT ![j] = p] /\ r.ts = [q.ts EXCEPT ![j] = q.pqCnt]
      /\ r.pqCnt = q.pqCnt + 1 /\ r.pending = q.pending /\ r.blocked = q.blocked
      /\ r.provisional = q.provisional \cup {e}
      /\ r.iter = q.iter /\ r.active = q.active /\ r.canceled = q.canceled
  BY <1>0, <1>2 DEF QueueState
<1>5. e = get_key(r, j)
  BY <1>0, <1>4, Fields DEF get_key
<1> HIDE DEF r, e
<1>6. \A i \in Job \ {j} : get_key(r, i) = get_key(q, i)
  BY <1>0, <1>4, Fields DEF get_key
<1>7. \A f \in q.pending \cup q.blocked \cup q.provisional : f.id \in Job \ {j} /\ f # e
  BY KeysDistinct DEF e
<1>8. Partitioned(r)
  <2>1. ASSUME NEW f \in r.pending \cup r.blocked \cup r.provisional
        PROVE  r.state[f.id] = "PENDING" /\ f = get_key(r, f.id)
    BY <1>0, <1>4, <1>5, <1>6, <1>7, Fields DEF Partitioned, e
  <2>2. ASSUME NEW i \in Job, r.state[i] = "PENDING"
        PROVE  get_key(r, i) \in r.pending \cup r.blocked \cup r.provisional
    BY <1>0, <1>4, <1>5, <1>6, <2>2, Fields DEF Partitioned
  <2> QED BY <1>0, <1>4, <1>7, <2>1, <2>2 DEF Partitioned
<1>9. Stamped(r)
  BY <1>0, <1>4, Fields DEF Stamped
<1>10. Cursor(r)
  BY <1>0, <1>4, <1>6, <1>7, Fields DEF Cursor, get_key
<1>11. Settled(r)
  BY <1>0, <1>4, Fields DEF Settled
<1> QED BY <1>3, <1>4, <1>8, <1>9, <1>10, <1>11 DEF QInv, Undisturbed, r

\* The list a deferred-work method leaves behind.
LEMMA RemainingType ==
    ASSUME NEW q, NEW ids, NEW S, NEW list \in Seq(S)
    PROVE  Remaining(q, ids, list) \in Seq(S)
  BY DEF Remaining

\* A deferred request carries a legal priority.
LEMMA NewPriorityType ==
    ASSUME NEW q \in QueueState, NEW j \in Job
    PROVE  NewPriority(q, j) \in Priority
<1> DEFINE mine == {i \in Effective(q, ReprioIds(q)) : q.reprioProv[i].id = j}
           last == {i \in mine : \A k \in mine : k <= i}
<1>1. last \subseteq DOMAIN q.reprioProv
  BY DEF Effective, Handled, ReprioIds
<1>2. \A i \in DOMAIN q.reprioProv : q.reprioProv[i].prio \in Priority
  <2> DEFINE R == [id : Job, prio : Priority]
  <2>1. q.reprioProv \in Seq(R)
    BY Fields
  <2>2. \A x \in R : x.prio \in Priority
    OBVIOUS
  <2> HIDE DEF R
  <2>3. \A i \in DOMAIN q.reprioProv : q.reprioProv[i] \in R
    BY <2>1
  <2> QED BY <2>2, <2>3
<1>3. q.prio[j] \in Priority
  BY Fields
<1> QED BY <1>1, <1>2, <1>3 DEF NewPriority

\* process_provisional_reprio moves every job to its new key in step with its
\* priority, and moves the blocked jobs if any request was effective.
LEMMA ReprioInv ==
    ASSUME NEW q, QInv(q), ~q.active
    PROVE  LET r == process_provisional_reprio(q)
           IN  QInv(r) /\ ~r.active
<1> DEFINE r    == process_provisional_reprio(q)
           some == Effective(q, ReprioIds(q)) # {}
           P    == [j \in Job |-> NewPriority(q, j)]
           old  == q.pending \cup (IF some THEN q.blocked ELSE {})
           oldB == IF some THEN {} ELSE q.blocked
           rest == Remaining(q, ReprioIds(q), q.reprioProv)
           able == q.schedulable \/ some
           late == q.reconsider /\ ~some
<1>0. q \in QueueState /\ Partitioned(q) /\ Stamped(q) /\ Cursor(q) /\ Settled(q)
  BY DEF QInv
<1>1. P \in [Job -> Priority]
  BY <1>0, NewPriorityType
<1>2. ASSUME NEW M, M \subseteq q.pending \cup q.blocked \cup q.provisional
      PROVE  /\ Rekey(q, M) = {[prio |-> P[e.id], ts |-> q.ts[e.id], id |-> e.id] : e \in M}
             /\ Rekey(q, M) \subseteq Entry
  <2>1. ASSUME NEW e \in M
        PROVE  /\ [e EXCEPT !.prio = NewPriority(q, e.id)]
                     = [prio |-> P[e.id], ts |-> q.ts[e.id], id |-> e.id]
               /\ [e EXCEPT !.prio = NewPriority(q, e.id)] \in Entry
    <3>1. e.id \in Job /\ e = [prio |-> q.prio[e.id], ts |-> q.ts[e.id], id |-> e.id]
      BY <1>2, KeysDistinct DEF get_key
    <3>2. q.ts[e.id] \in Nat /\ P[e.id] = NewPriority(q, e.id) /\ P[e.id] \in Priority
      BY <3>1, <1>0, <1>1, Fields
    <3> QED BY <3>1, <3>2 DEF Entry
  <2>2. Rekey(q, M) = {[e EXCEPT !.prio = NewPriority(q, e.id)] : e \in M}
    BY DEF Rekey
  <2>3. Rekey(q, M) \subseteq Entry
    BY <2>1, <2>2
  <2> DEFINE Old(e) == [e EXCEPT !.prio = NewPriority(q, e.id)]
             New(e) == [prio |-> P[e.id], ts |-> q.ts[e.id], id |-> e.id]
  <2>4. \A e \in M : Old(e) = New(e)
    BY <2>1
  <2> HIDE DEF Old, New
  <2>5. {Old(e) : e \in M} = {New(e) : e \in M}
    BY <2>4
  <2> QED BY <2>2, <2>3, <2>5 DEF Old, New
<1>3. rest \in Seq([id : Job, prio : Priority])
  <2> DEFINE R == [id : Job, prio : Priority]
  <2>1. q.reprioProv \in Seq(R)
    BY <1>0, Fields
  <2> HIDE DEF R
  <2>2. rest \in Seq(R)
    BY <2>1, RemainingType
  <2> QED BY <2>2 DEF R
<1>4. r = [q EXCEPT !.prio = P, !.pending = Rekey(q, old), !.blocked = oldB,
                    !.provisional = Rekey(q, q.provisional),
                    !.schedulable = able, !.reconsider = late,
                    !.reprioProv = rest]
  BY DEF process_provisional_reprio
<1>5. Rekey(q, old) \in SUBSET Entry /\ Rekey(q, q.provisional) \in SUBSET Entry
      /\ oldB \in SUBSET Entry /\ able \in BOOLEAN /\ late \in BOOLEAN
  BY <1>0, <1>2, Fields
<1>6. oldB # {} => P = q.prio
  <2> SUFFICES ASSUME ~some PROVE P = q.prio
    OBVIOUS
  <2>1. \A j \in Job : NewPriority(q, j) = q.prio[j]
    BY DEF NewPriority
  <2> QED BY <2>1, <1>0, Fields
<1>6a. \A e \in oldB : e = [prio |-> P[e.id], ts |-> q.ts[e.id], id |-> e.id]
  BY <1>6, KeysDistinct DEF get_key
<1>7. r \in QueueState
  <2> HIDE DEF r, some, P, old, oldB, rest, able, late
  <2> QED BY <1>0, <1>1, <1>3, <1>4, <1>5, ZenonT(60) DEF QueueState
<1>8. /\ r.state = q.state /\ r.prio = P /\ r.ts = q.ts /\ r.pqCnt = q.pqCnt
      /\ r.pending = Rekey(q, old) /\ r.blocked = oldB
      /\ r.provisional = Rekey(q, q.provisional)
      /\ r.iter = q.iter /\ r.active = q.active /\ r.canceled = q.canceled
  <2> HIDE DEF r, some, P, old, oldB, rest, able, late
  <2> QED BY <1>0, <1>4 DEF QueueState
<1>9. /\ old \cup oldB = q.pending \cup q.blocked
      /\ old \cap oldB = {}
      /\ old \cap q.provisional = {} /\ oldB \cap q.provisional = {}
  BY <1>0 DEF Partitioned
<1> DEFINE New(e) == [prio |-> P[e.id], ts |-> q.ts[e.id], id |-> e.id]
<1>10. /\ r.pending = {New(e) : e \in old}
       /\ r.blocked = {New(e) : e \in oldB}
       /\ r.provisional = {New(e) : e \in q.provisional}
  <2>1. \A e \in oldB : e = New(e)
    BY <1>6a
  <2>2. oldB = {New(e) : e \in oldB}
    <3> HIDE DEF oldB, New
    <3> QED BY <2>1
  <2> QED BY <1>2, <1>8, <1>9, <2>2
<1>11. \A e \in old \cup oldB \cup q.provisional :
          e.id \in Job /\ q.state[e.id] = "PENDING" /\ New(e) = get_key(r, e.id)
  BY <1>8, <1>9, KeysDistinct DEF get_key
<1>12. \A e, f \in old \cup oldB \cup q.provisional : New(e) = New(f) => e = f
  <2>1. \A e, f \in old \cup oldB \cup q.provisional : New(e) = New(f) => e.id = f.id
    OBVIOUS
  <2> QED BY <2>1, <1>9, KeysDistinct
<1> HIDE DEF r, some, P, old, oldB, rest, New
<1>13. Partitioned(r)
  <2>1. ASSUME NEW f \in r.pending \cup r.blocked \cup r.provisional
        PROVE  r.state[f.id] = "PENDING" /\ f = get_key(r, f.id)
    <3>1. PICK e \in old \cup oldB \cup q.provisional : f = New(e)
      BY <1>10
    <3>2. f.id = e.id
      BY <3>1 DEF New
    <3> QED BY <3>1, <3>2, <1>8, <1>11
  <2>2. ASSUME NEW i \in Job, r.state[i] = "PENDING"
        PROVE  get_key(r, i) \in r.pending \cup r.blocked \cup r.provisional
    <3>1. get_key(q, i) \in old \cup oldB \cup q.provisional
      BY <1>0, <1>8, <1>9, <2>2 DEF Partitioned
    <3>2. get_key(q, i).id = i
      BY DEF get_key
    <3>3. New(get_key(q, i)) = get_key(r, i)
      BY <1>11, <3>1, <3>2
    <3> QED BY <1>10, <3>1, <3>3
  <2>3. /\ r.pending \cap r.blocked = {}
        /\ r.pending \cap r.provisional = {}
        /\ r.blocked \cap r.provisional = {}
    BY <1>9, <1>10, <1>12
  <2> QED BY <2>1, <2>2, <2>3 DEF Partitioned
<1>14. Stamped(r)
  BY <1>0, <1>8 DEF Stamped
<1>15. Cursor(r) /\ Settled(r)
  BY <1>0, <1>8 DEF Cursor, Settled
<1> QED BY <1>7, <1>8, <1>13, <1>14, <1>15 DEF QInv, r

\* process_provisional_cancel erases every job it cancels from its map.
LEMMA CancelInv ==
    ASSUME NEW q, QInv(q), ~q.active
    PROVE  LET r == process_provisional_cancel(q)
           IN  QInv(r) /\ ~r.active
<1> DEFINE r    == process_provisional_cancel(q)
           gone == {q.cancelProv[i] : i \in Effective(q, q.cancelProv)}
           Keep(M) == {e \in M : e.id \notin gone}
           S == [j \in Job |-> IF j \in gone THEN "CANCELED" ELSE q.state[j]]
           P == [j \in Job |-> IF j \in gone THEN 0 ELSE q.prio[j]]
           T == [j \in Job |-> IF j \in gone THEN 0 ELSE q.ts[j]]
           D == [j \in Job |-> IF j \in gone THEN NoSchedule ELSE q.sched[j]]
           rest == Remaining(q, q.cancelProv, q.cancelProv)
<1>0. q \in QueueState /\ Partitioned(q) /\ Stamped(q) /\ Cursor(q) /\ Settled(q)
  BY DEF QInv
<1>1. gone \subseteq Job
  BY <1>0, Fields DEF Effective, Handled
<1>2. r = [q EXCEPT !.state = S, !.prio = P, !.ts = T, !.sched = D,
                    !.pending = Keep(q.pending), !.blocked = Keep(q.blocked),
                    !.provisional = Keep(q.provisional),
                    !.canceled = q.canceled \cup gone,
                    !.schedulable = @ \/ gone # {}, !.cancelProv = rest]
  BY DEF process_provisional_cancel
<1>3. /\ S \in [Job -> JobState] /\ P \in [Job -> Priority] /\ T \in [Job -> Nat]
      /\ D \in [Job -> Schedule] /\ rest \in Seq(Job)
      /\ Keep(q.pending) \in SUBSET Entry /\ Keep(q.blocked) \in SUBSET Entry
      /\ Keep(q.provisional) \in SUBSET Entry /\ q.canceled \cup gone \in SUBSET Job
      /\ (gone # {}) \in BOOLEAN
  <2> HIDE DEF gone
  <2>1. S \in [Job -> JobState]
    BY <1>0, Fields DEF JobState
  <2>2. P \in [Job -> Priority] /\ T \in [Job -> Nat]
    BY <1>0, Fields, BaseAssumption DEF Priority
  <2>3. D \in [Job -> Schedule]
    BY <1>0, Fields DEF NoSchedule, Schedule
  <2>4. rest \in Seq(Job)
    BY <1>0, Fields DEF Remaining
  <2> QED BY <1>0, <1>1, <2>1, <2>2, <2>3, <2>4, Fields
<1>4. r \in QueueState
  <2> HIDE DEF r, gone, Keep, S, P, T, D, rest
  <2> QED BY <1>0, <1>2, <1>3, ZenonT(60) DEF QueueState
<1>5. /\ r.state = S /\ r.prio = P /\ r.ts = T /\ r.pqCnt = q.pqCnt
      /\ r.pending = Keep(q.pending) /\ r.blocked = Keep(q.blocked)
      /\ r.provisional = Keep(q.provisional)
      /\ r.iter = q.iter /\ r.active = q.active /\ r.canceled = q.canceled \cup gone
  <2> HIDE DEF r, gone, Keep, S, P, T, D, rest
  <2> QED BY <1>0, <1>2 DEF QueueState
<1>6. \A i \in Job \ gone : get_key(r, i) = get_key(q, i) /\ S[i] = q.state[i] /\ T[i] = q.ts[i]
  <2> HIDE DEF r, gone
  <2> QED BY <1>5 DEF get_key
<1>7. \A i \in gone : i \in Job /\ S[i] = "CANCELED"
  BY <1>1
<1> HIDE DEF r, gone, S, P, T, D, rest
<1>8. Partitioned(r)
  <2>1. ASSUME NEW f \in r.pending \cup r.blocked \cup r.provisional
        PROVE  r.state[f.id] = "PENDING" /\ f = get_key(r, f.id)
    <3>1. f \in q.pending \cup q.blocked \cup q.provisional /\ f.id \notin gone
      BY <1>5
    <3>2. f.id \in Job /\ f = get_key(q, f.id) /\ q.state[f.id] = "PENDING"
      BY <3>1, KeysDistinct
    <3> QED BY <3>1, <3>2, <1>5, <1>6
  <2>2. ASSUME NEW i \in Job, r.state[i] = "PENDING"
        PROVE  get_key(r, i) \in r.pending \cup r.blocked \cup r.provisional
    <3>1. i \notin gone /\ get_key(r, i) = get_key(q, i) /\ q.state[i] = "PENDING"
      BY <1>5, <1>6, <1>7, <2>2
    <3>2. get_key(q, i).id = i
      BY DEF get_key
    <3> QED BY <1>0, <1>5, <3>1, <3>2 DEF Partitioned
  <2>3. /\ r.pending \cap r.blocked = {}
        /\ r.pending \cap r.provisional = {}
        /\ r.blocked \cap r.provisional = {}
    BY <1>0, <1>5 DEF Partitioned
  <2> QED BY <2>1, <2>2, <2>3 DEF Partitioned
<1>9. Stamped(r)
  <2>1. \A i \in Job : r.state[i] = "PENDING" => q.state[i] = "PENDING" /\ r.ts[i] = q.ts[i]
    BY <1>5, <1>6, <1>7
  <2> QED BY <1>0, <1>5, <2>1 DEF Stamped
<1>10. Cursor(r)
  BY <1>0, <1>5 DEF Cursor
<1>11. Settled(r)
  BY <1>0, <1>5, <1>6, <1>7, Fields DEF Settled
<1> QED BY <1>4, <1>5, <1>8, <1>9, <1>10, <1>11 DEF QInv, r

\* Ending a loop carries out the deferred work and keeps the invariant.
LEMMA EndInv ==
    ASSUME NEW q, QInv(q)
    PROVE  LET r == EndSchedLoop(q) IN QInv(r) /\ ~r.active
<1> DEFINE r == [q EXCEPT !.active = FALSE, !.iter = Nil, !.tryReserve = FALSE,
                          !.reservationCnt = 0, !.scheduledCnt = 0]
<1>0. q \in QueueState /\ Partitioned(q) /\ Stamped(q) /\ Cursor(q) /\ Settled(q)
  BY DEF QInv
<1>1. r \in QueueState
  BY <1>0 DEF QueueState
<1>2. /\ r.state = q.state /\ r.prio = q.prio /\ r.ts = q.ts /\ r.pqCnt = q.pqCnt
      /\ r.pending = q.pending /\ r.blocked = q.blocked
      /\ r.provisional = q.provisional /\ r.iter = Nil /\ ~r.active
      /\ r.canceled = q.canceled
  BY <1>0 DEF QueueState
<1> HIDE DEF r
<1>3. QInv(r)
  BY <1>1, <1>2, SameInv
<1>4. QInv(process_provisional_reprio(r)) /\ ~process_provisional_reprio(r).active
  BY <1>2, <1>3, ReprioInv
<1> DEFINE s == process_provisional_cancel(process_provisional_reprio(r))
<1>5. QInv(s) /\ ~s.active
  BY <1>4, CancelInv
<1>6. QInv(process_provisional_reconsider(s)) /\ ~process_provisional_reconsider(s).active
  BY <1>5, ReconsiderInv
<1> QED BY <1>6 DEF EndSchedLoop, r

-----------------------------------------------------------------------------
\* remove_pending: a cancellation, at once or deferred.
LEMMA RemovePendingInv ==
    ASSUME NEW q, QInv(q), NEW j \in Job, q.state[j] = "PENDING"
    PROVE  QInv(remove_pending(q, j)) /\ Undisturbed(q, remove_pending(q, j))
<1>0. q \in QueueState /\ Partitioned(q) /\ Stamped(q) /\ Cursor(q) /\ Settled(q)
  BY DEF QInv
<1>1. CASE q.active
  <2> DEFINE c == cancel_sched_loop(q)
             r == [c EXCEPT !.cancelProv = Append(@, j)]
  <2>1. QInv(c) /\ Undisturbed(q, c) /\ c \in QueueState
    BY CancelLoopInv DEF QInv
  <2> HIDE DEF c
  <2>2. Append(c.cancelProv, j) \in Seq(Job)
    BY <2>1, Fields
  <2>3. r \in QueueState
    BY <2>1, <2>2 DEF QueueState
  <2>4. /\ r.state = c.state /\ r.prio = c.prio /\ r.ts = c.ts /\ r.pqCnt = c.pqCnt
        /\ r.pending = c.pending /\ r.blocked = c.blocked
        /\ r.provisional = c.provisional /\ r.iter = c.iter /\ r.active = c.active
        /\ r.canceled = c.canceled
    BY <2>1 DEF QueueState
  <2> HIDE DEF r
  <2>5. QInv(r)
    BY <2>1, <2>3, <2>4, SameInv
  <2>6. Undisturbed(q, r)
    BY <2>1, <2>4 DEF Undisturbed
  <2> QED BY <1>1, <2>5, <2>6 DEF remove_pending, r, c
<1>2. CASE ~q.active
  <2> DEFINE w == Without(q, j, "CANCELED")
             r == [w EXCEPT !.canceled = @ \cup {j}, !.schedulable = TRUE]
  <2>1. remove_pending(q, j) = r
    <3> DEFINE x == erase_pending_job(q, j)
               e == get_key(q, j)
    <3>1. /\ IsQueued(q, j)
          /\ x = [q EXCEPT !.pending = @ \ {e}, !.blocked = @ \ {e}, !.provisional = @ \ {e}]
      BY ErasePending
    <3>2. remove_pending(q, j) = [Leave(x, j, "CANCELED") EXCEPT
              !.canceled = @ \cup {j}, !.schedulable = TRUE]
      BY <1>2, <3>1 DEF remove_pending
    <3> HIDE DEF x, e
    <3>3. Leave(x, j, "CANCELED") = Without(q, j, "CANCELED")
      <4>1. Leave(x, j, "CANCELED")
            = [q EXCEPT !.state = [q.state EXCEPT ![j] = "CANCELED"],
                    !.prio  = [q.prio EXCEPT ![j] = 0],
                    !.ts    = [q.ts EXCEPT ![j] = 0],
                    !.sched = [q.sched EXCEPT ![j] = NoSchedule],
                    !.pending = @ \ {e}, !.blocked = @ \ {e}, !.provisional = @ \ {e}]
        BY <1>0, <3>1, ZenonT(60) DEF Leave, QueueState
      <4>2. Without(q, j, "CANCELED")
            = [q EXCEPT !.state = [q.state EXCEPT ![j] = "CANCELED"],
                    !.prio  = [q.prio EXCEPT ![j] = 0],
                    !.ts    = [q.ts EXCEPT ![j] = 0],
                    !.sched = [q.sched EXCEPT ![j] = NoSchedule],
                    !.pending = @ \ {e}, !.blocked = @ \ {e}, !.provisional = @ \ {e}]
        BY DEF Leave, Without, e
      <4> QED BY <4>1, <4>2
    <3> QED BY <3>2, <3>3
  <2>2. "CANCELED" \in JobState \ {"PENDING"}
    BY DEF JobState
  <2>3. /\ w \in QueueState /\ Partitioned(w) /\ Stamped(w)
        /\ w.active = q.active /\ w.iter = q.iter
        /\ w.state[j] = "CANCELED" /\ \A i \in Job \ {j} : w.state[i] = q.state[i]
        /\ w.canceled = q.canceled
    BY <2>2, WithoutInv
  <2> HIDE DEF w
  <2>4. r \in QueueState
    BY <2>3 DEF QueueState
  <2>5. /\ r.state = w.state /\ r.prio = w.prio /\ r.ts = w.ts /\ r.pqCnt = w.pqCnt
        /\ r.pending = w.pending /\ r.blocked = w.blocked
        /\ r.provisional = w.provisional /\ r.iter = w.iter /\ r.active = w.active
        /\ r.canceled = w.canceled \cup {j}
    BY <2>3 DEF QueueState
  <2> HIDE DEF r
  <2>6. Partitioned(r)
    BY <2>3, <2>5 DEF Partitioned, get_key
  <2>7. Stamped(r)
    BY <2>3, <2>5 DEF Stamped
  <2>8. Cursor(r)
    BY <1>0, <1>2, <2>3, <2>5 DEF Cursor
  <2>9. Settled(r)
    BY <1>0, <2>3, <2>5, Fields DEF Settled
  <2> QED BY <1>2, <2>1, <2>3, <2>4, <2>5, <2>6, <2>7, <2>8, <2>9 DEF QInv, Undisturbed
<1> QED BY <1>0, <1>1, <1>2, Fields

\* pending_reprioritize: a new priority, at once or deferred.
LEMMA ReprioritizeInv ==
    ASSUME NEW q, QInv(q), NEW j \in Job, NEW p \in Priority, q.state[j] = "PENDING"
    PROVE  /\ QInv(pending_reprioritize(q, j, p))
           /\ Undisturbed(q, pending_reprioritize(q, j, p))
<1> DEFINE R == [id : Job, prio : Priority]
           r == [q EXCEPT !.reprioProv = Append(@, [id |-> j, prio |-> p])]
<1>0. q \in QueueState
  BY DEF QInv
<1>1. Append(q.reprioProv, [id |-> j, prio |-> p]) \in Seq(R)
  <2>1. q.reprioProv \in Seq(R)
    BY <1>0, Fields
  <2>2. [id |-> j, prio |-> p] \in R
    OBVIOUS
  <2> HIDE DEF R
  <2> QED BY <2>1, <2>2
<1>2. r \in QueueState
  BY <1>0, <1>1 DEF QueueState
<1>3. /\ r.state = q.state /\ r.prio = q.prio /\ r.ts = q.ts /\ r.pqCnt = q.pqCnt
      /\ r.pending = q.pending /\ r.blocked = q.blocked
      /\ r.provisional = q.provisional /\ r.iter = q.iter /\ r.active = q.active
      /\ r.canceled = q.canceled
  BY <1>0 DEF QueueState
<1> HIDE DEF r
<1>4. QInv(r)
  BY <1>2, <1>3, SameInv
<1>5. CASE q.active
  <2>1. pending_reprioritize(q, j, p) = cancel_sched_loop(r)
    BY <1>5 DEF pending_reprioritize, r
  <2> QED BY <1>3, <1>4, <2>1, CancelLoopInv DEF Undisturbed
<1>6. CASE ~q.active
  <2>1. pending_reprioritize(q, j, p) = process_provisional_reprio(r)
    BY <1>6 DEF pending_reprioritize, r
  <2>2. QInv(process_provisional_reprio(r)) /\ ~process_provisional_reprio(r).active
    BY <1>3, <1>4, <1>6, ReprioInv
  <2>3. process_provisional_reprio(r).active \in BOOLEAN /\ q.active \in BOOLEAN
    BY <1>0, <2>2, Fields DEF QInv
  <2> QED BY <1>6, <2>1, <2>2, <2>3 DEF Undisturbed
<1> QED BY <1>5, <1>6

\* A job whose allocation is gone is forgotten.
LEMMA ErasedInv ==
    ASSUME NEW q, QInv(q), NEW j \in Job, q.state[j] \in {"RUNNING", "ALLOC_RUNNING"}
    PROVE  LET r == [Leave(q, j, "NONE") EXCEPT !.alloced = @ \ {j}, !.running = @ \ {j}]
           IN  QInv(r) /\ Undisturbed(q, r)
<1> DEFINE erased == [Leave(q, j, "NONE") EXCEPT !.alloced = @ \ {j}, !.running = @ \ {j}]
<1>0. q \in QueueState /\ Partitioned(q) /\ Stamped(q) /\ Cursor(q) /\ Settled(q)
  BY DEF QInv
<1> DEFINE e == get_key(q, j)
           w == Without(q, j, "NONE")
<1>1. e \notin q.pending \cup q.blocked \cup q.provisional
  BY KeysDistinct DEF get_key
<1>2. w = [Leave(q, j, "NONE") EXCEPT !.pending = q.pending,
              !.blocked = q.blocked, !.provisional = q.provisional]
  <2>1. q.pending \ {e} = q.pending /\ q.blocked \ {e} = q.blocked
        /\ q.provisional \ {e} = q.provisional
    BY <1>1
  <2>2. /\ Leave(q, j, "NONE").pending = q.pending
        /\ Leave(q, j, "NONE").blocked = q.blocked
        /\ Leave(q, j, "NONE").provisional = q.provisional
    BY <1>0 DEF Leave, QueueState
  <2> QED BY <2>1, <2>2 DEF Without
<1>3. w = Leave(q, j, "NONE")
  <2> HIDE DEF w
  <2> QED BY <1>0, <1>2 DEF Leave, QueueState
<1>4. "NONE" \in JobState \ {"PENDING"}
  BY DEF JobState
<1>5. /\ w \in QueueState /\ Partitioned(w) /\ Stamped(w)
      /\ w.active = q.active /\ w.iter = q.iter
      /\ w.state[j] = "NONE" /\ \A i \in Job \ {j} : w.state[i] = q.state[i]
      /\ w.canceled = q.canceled
      /\ w.pending = q.pending \ {e}
      /\ \A i \in Job \ {j} : get_key(w, i) = get_key(q, i)
  BY <1>4, WithoutInv
<1>6. w.pending = q.pending
  BY <1>1, <1>5
<1>7. erased = [w EXCEPT !.alloced = @ \ {j}, !.running = @ \ {j}]
  BY <1>3
<1> HIDE DEF w, erased
<1>8. erased \in QueueState
  BY <1>5, <1>7 DEF QueueState
<1>9. /\ erased.state = w.state /\ erased.prio = w.prio /\ erased.ts = w.ts
      /\ erased.pqCnt = w.pqCnt
      /\ erased.pending = w.pending /\ erased.blocked = w.blocked
      /\ erased.provisional = w.provisional /\ erased.iter = w.iter
      /\ erased.active = w.active /\ erased.canceled = w.canceled
  BY <1>5, <1>7 DEF QueueState
<1>10. QInv(w)
  <2>1. Settled(w)
    BY <1>0, <1>5, Fields DEF Settled
  <2>2. q.iter # Nil => q.iter \in Job \ {j}
    BY <1>0, <1>1, Fields DEF Cursor
  <2>3. Cursor(w)
    BY <1>0, <1>5, <1>6, <2>2 DEF Cursor
  <2> QED BY <1>5, <2>1, <2>3 DEF QInv
<1>11. QInv(erased)
  BY <1>8, <1>9, <1>10, SameInv
<1> QED BY <1>5, <1>6, <1>9, <1>11 DEF Undisturbed, erased

\* remove: releasing the allocation of a job, whatever the answer of the
\* resource module, and even when the job is pending.
LEMMA RemoveInv ==
    ASSUME NEW q, QInv(q), NEW j \in Job, NEW final, NEW ok, NEW full
    PROVE  QInv(remove(q, j, final, ok, full)) /\ Undisturbed(q, remove(q, j, final, ok, full))
<1> DEFINE erased == [Leave(q, j, "NONE") EXCEPT !.alloced = @ \ {j}, !.running = @ \ {j}]
           kept == IF full \/ final THEN erased ELSE q
           r == IF q.state[j] = "PENDING" THEN remove_pending(q, j)
                ELSE IF q.state[j] \in {"RUNNING", "ALLOC_RUNNING"} /\ ok
                THEN [kept EXCEPT !.schedulable = TRUE]
                ELSE q
<1>0. q \in QueueState /\ Partitioned(q) /\ Stamped(q) /\ Cursor(q) /\ Settled(q)
  BY DEF QInv
<1>1. q.state[j] \in {"RUNNING", "ALLOC_RUNNING"} => QInv(erased) /\ Undisturbed(q, erased)
  BY ErasedInv
<1>2. QInv(r) /\ Undisturbed(q, r)
  <2>1. CASE q.state[j] = "PENDING"
    <3>1. r = remove_pending(q, j)
      BY <2>1
    <3> HIDE DEF r
    <3> QED BY <2>1, <3>1, RemovePendingInv
  <2>2. CASE q.state[j] \in {"RUNNING", "ALLOC_RUNNING"} /\ ok
    <3> HIDE DEF erased
    <3>1. QInv(kept) /\ Undisturbed(q, kept) /\ kept \in QueueState
      BY <1>1, <2>2 DEF Undisturbed, QInv
    <3>2. r = [kept EXCEPT !.schedulable = TRUE]
      BY <2>2
    <3> HIDE DEF kept, r
    <3>3. r \in QueueState
      BY <3>1, <3>2 DEF QueueState
    <3>4. /\ r.state = kept.state /\ r.prio = kept.prio /\ r.ts = kept.ts
          /\ r.pqCnt = kept.pqCnt
          /\ r.pending = kept.pending /\ r.blocked = kept.blocked
          /\ r.provisional = kept.provisional /\ r.iter = kept.iter
          /\ r.active = kept.active /\ r.canceled = kept.canceled
      BY <3>1, <3>2 DEF QueueState
    <3>5. QInv(r)
      BY <3>1, <3>3, <3>4, SameInv
    <3> QED BY <3>1, <3>4, <3>5 DEF Undisturbed
  <2>3. CASE ~(q.state[j] = "PENDING") /\ ~(q.state[j] \in {"RUNNING", "ALLOC_RUNNING"} /\ ok)
    BY <2>3 DEF Undisturbed
  <2> QED BY <2>1, <2>2, <2>3
<1> DEFINE c == cancel_sched_loop(r)
<1>3. remove(q, j, final, ok, full) = reconsider_blocked_jobs(c)
  BY DEF remove
<1> HIDE DEF r
<1>4. QInv(c) /\ Undisturbed(r, c)
  BY <1>2, CancelLoopInv
<1> HIDE DEF c
<1>5. QInv(reconsider_blocked_jobs(c)) /\ Undisturbed(c, reconsider_blocked_jobs(c))
  BY <1>4, ReconsiderBlockedInv
<1> QED BY <1>2, <1>3, <1>4, <1>5 DEF Undisturbed

\* A resource status change.
LEMMA ResourceChangedInv ==
    ASSUME NEW q, QInv(q)
    PROVE  QInv(resource_changed(q)) /\ Undisturbed(q, resource_changed(q))
<1> DEFINE r == [q EXCEPT !.schedulable = TRUE]
<1>0. q \in QueueState
  BY DEF QInv
<1>1. r \in QueueState
  BY <1>0 DEF QueueState
<1>2. /\ r.state = q.state /\ r.prio = q.prio /\ r.ts = q.ts /\ r.pqCnt = q.pqCnt
      /\ r.pending = q.pending /\ r.blocked = q.blocked
      /\ r.provisional = q.provisional /\ r.iter = q.iter /\ r.active = q.active
      /\ r.canceled = q.canceled
  BY <1>0 DEF QueueState
<1>3. resource_changed(q) = reconsider_blocked_jobs(r)
  BY DEF resource_changed
<1> HIDE DEF r
<1>4. QInv(r)
  BY <1>1, <1>2, SameInv
<1> QED BY <1>2, <1>3, <1>4, ReconsiderBlockedInv DEF Undisturbed

-----------------------------------------------------------------------------
\* Before is a strict order that is total up to equal keys.
LEMMA Order ==
    ASSUME NEW e \in Entry, NEW f \in Entry, NEW g \in Entry
    PROVE  /\ ~Before(e, e)
           /\ Before(e, f) => ~Before(f, e)
           /\ Before(e, f) /\ Before(f, g) => Before(e, g)
           /\ SameKey(e, f) \/ Before(e, f) \/ Before(f, e)
<1>1. /\ e.prio \in Nat /\ e.ts \in Nat /\ TSubmit[e.id] \in Nat
      /\ f.prio \in Nat /\ f.ts \in Nat /\ TSubmit[f.id] \in Nat
      /\ g.prio \in Nat /\ g.ts \in Nat /\ TSubmit[g.id] \in Nat
  BY BaseAssumption DEF Entry, Priority
<1> QED BY <1>1 DEF Before, SameKey

\* The iterator's job leaves m_pending and the iterator moves on.
LEMMA LeaveIter ==
    ASSUME NEW q, QInv(q), q.active, q.iter # Nil,
           NEW s \in JobState \ {"PENDING"}, NEW r \in QueueState,
           r.state = [q.state EXCEPT ![q.iter] = s],
           r.prio = [q.prio EXCEPT ![q.iter] = 0], r.ts = [q.ts EXCEPT ![q.iter] = 0],
           r.pqCnt = q.pqCnt, r.canceled = q.canceled, r.active = q.active,
           r.pending = {e \in q.pending : e.id # q.iter},
           r.blocked = q.blocked, r.provisional = q.provisional,
           r.iter = NextOf(q.pending, q.iter)
    PROVE  /\ QInv(r)
           /\ get_key(q, q.iter) \in q.pending
           /\ r.pending = q.pending \ {get_key(q, q.iter)}
<1> DEFINE j == q.iter
           k == get_key(q, j)
           n == NextOf(q.pending, j)
<1>0. q \in QueueState /\ Partitioned(q) /\ Stamped(q) /\ Cursor(q) /\ Settled(q)
  BY DEF QInv
<1>1. j \in Job /\ k \in q.pending /\ q.state[j] = "PENDING" /\ k.id = j
  BY <1>0, Fields DEF Cursor, Partitioned, get_key
<1>2. ASSUME NEW e \in q.pending PROVE e.id = j <=> e = k
  BY <1>2, <1>1, KeysDistinct
<1>3. q.pending \subseteq Entry
  BY <1>0, Fields
<1>4. r.pending = q.pending \ {k}
  BY <1>2
<1>5. n # Nil => n \in Job \ {j} /\ get_key(q, n) \in q.pending \ {k}
  <2> SUFFICES ASSUME n # Nil PROVE n \in Job \ {j} /\ get_key(q, n) \in q.pending \ {k}
    OBVIOUS
  <2>1. PICK f \in q.pending, e \in q.pending : f.id = n /\ e.id = j /\ Before(e, f)
    BY NextIn
  <2>2. e = k /\ f # k
    BY <2>1, <1>2, <1>3, Order
  <2>3. f = get_key(q, n) /\ n \in Job
    BY <2>1, KeysDistinct
  <2> QED BY <2>1, <2>2, <2>3, <1>2
<1>6. Policy = "fcfs" => n = BeginOf(q.pending \ {k})
  <2> SUFFICES ASSUME j = BeginOf(q.pending) PROVE n = BeginOf(q.pending \ {k})
    BY <1>0 DEF Cursor
  <2>1. PICK e \in q.pending : e.id = j /\ \A f \in q.pending : f = e \/ Before(e, f)
    BY BeginIn
  <2>2. e = k
    BY <2>1, <1>2
  <2>3. {f \in q.pending : \E x \in q.pending : x.id = j /\ Before(x, f)} = q.pending \ {k}
    <3>1. ASSUME NEW f \in q.pending, NEW x \in q.pending, x.id = j, Before(x, f)
          PROVE  f # k
      BY <3>1, <1>2, <1>3, Order
    <3> QED BY <2>1, <2>2, <3>1
  <2> QED BY <2>3 DEF NextOf
<1>7. \A i \in Job \ {j} : get_key(r, i) = get_key(q, i) /\ r.state[i] = q.state[i]
                           /\ r.ts[i] = q.ts[i]
  BY <1>0, Fields DEF get_key
<1>8. r.state[j] = s
  BY <1>0, <1>1, Fields
<1>9. \A e \in q.pending \cup q.blocked \cup q.provisional : e.id = j <=> e = k
  BY <1>1, KeysDistinct
<1>10. k \notin q.blocked /\ k \notin q.provisional
  BY <1>0, <1>1 DEF Partitioned
<1>11. Partitioned(r)
  <2>1. ASSUME NEW f \in r.pending \cup r.blocked \cup r.provisional
        PROVE  r.state[f.id] = "PENDING" /\ f = get_key(r, f.id)
    <3>1. f \in q.pending \cup q.blocked \cup q.provisional /\ f # k
      BY <1>4, <1>10
    <3>2. f.id \in Job \ {j} /\ f = get_key(q, f.id) /\ q.state[f.id] = "PENDING"
      BY <3>1, <1>9, KeysDistinct
    <3> QED BY <3>2, <1>7
  <2>2. ASSUME NEW i \in Job, r.state[i] = "PENDING"
        PROVE  get_key(r, i) \in r.pending \cup r.blocked \cup r.provisional
    <3>1. i # j
      BY <1>8, <2>2
    <3>2. get_key(q, i) \in q.pending \cup q.blocked \cup q.provisional
      BY <1>0, <1>7, <2>2, <3>1 DEF Partitioned
    <3>3. get_key(q, i) # k
      BY <3>1 DEF get_key
    <3> QED BY <1>4, <1>7, <3>1, <3>2, <3>3
  <2> QED BY <1>0, <1>4, <2>1, <2>2 DEF Partitioned
<1>12. Stamped(r)
  <2>1. \A i \in Job : r.state[i] = "PENDING" => q.state[i] = "PENDING" /\ r.ts[i] = q.ts[i]
    BY <1>7, <1>8
  <2> QED BY <1>0, <2>1 DEF Stamped
<1>13. Settled(r)
  BY <1>0, <1>1, <1>7, Fields DEF Settled
<1>14. Cursor(r)
  <2>1. r.iter # Nil => r.active /\ get_key(r, r.iter) \in r.pending
    BY <1>4, <1>5, <1>7
  <2> QED BY <1>4, <1>6, <2>1 DEF Cursor
<1> QED BY <1>1, <1>4, <1>11, <1>12, <1>13, <1>14 DEF QInv

\* The types of the fields Leave changes.
LEMMA LeaveTypes ==
    ASSUME NEW q \in QueueState, NEW j \in Job, NEW s \in JobState
    PROVE  /\ [q.state EXCEPT ![j] = s] \in [Job -> JobState]
           /\ [q.prio EXCEPT ![j] = 0] \in [Job -> Priority]
           /\ [q.ts EXCEPT ![j] = 0] \in [Job -> Nat]
           /\ [q.sched EXCEPT ![j] = NoSchedule] \in [Job -> Schedule]
  BY Fields, BaseAssumption DEF NoSchedule, Schedule, Priority

\* The iterator only moves within m_pending.
LEMMA NextType ==
    ASSUME NEW q, QInv(q), NEW j
    PROVE  /\ NextOf(q.pending, j) \in Job \cup {Nil}
           /\ BeginOf(q.pending) \in Job \cup {Nil}
<1>1. \A e \in q.pending : e.id \in Job
  BY KeysDistinct
<1> QED BY <1>1, NextIn, BeginIn

\* to_running takes the iterator's job, and nothing else, out of m_pending.
LEMMA ToRunningInv ==
    ASSUME NEW q, QInv(q), q.active, q.iter # Nil
    PROVE  LET r == to_running(q, q.iter)
           IN  /\ QInv(r) /\ r.active
               /\ get_key(q, q.iter) \in q.pending
               /\ r.pending = q.pending \ {get_key(q, q.iter)}
<1> DEFINE j == q.iter
           s == "ALLOC_RUNNING"
           n == NextOf(q.pending, j)
           S == [q.state EXCEPT ![j] = s]
           P == [q.prio EXCEPT ![j] = 0]
           T == [q.ts EXCEPT ![j] = 0]
           D == [q.sched EXCEPT ![j] = NoSchedule]
           M == {e \in q.pending : e.id # j}
           r == to_running(q, j)
<1>0. q \in QueueState
  BY DEF QInv
<1>1. s \in JobState /\ s # "PENDING"
  BY DEF JobState
<1>2. j \in Job
  BY <1>0, Fields
<1>3. n \in Job \cup {Nil}
  BY NextType
<1>4. S \in [Job -> JobState] /\ P \in [Job -> Priority] /\ T \in [Job -> Nat]
      /\ D \in [Job -> Schedule]
  BY <1>0, <1>1, <1>2, LeaveTypes
<1>5. M \in SUBSET Entry
  BY <1>0, Fields
<1>6. r = [q EXCEPT !.state = S, !.prio = P, !.ts = T, !.sched = D,
                    !.running = @ \cup {j}, !.alloced = @ \cup {j}, !.scheduled = TRUE,
                    !.iter = n, !.pending = M]
  BY DEF to_running, Leave
<1> HIDE DEF j, s, n, S, P, T, D, M, r
<1>7. r \in QueueState
  BY <1>0, <1>2, <1>3, <1>4, <1>5, <1>6, ZenonT(60) DEF QueueState
<1>8. /\ r.state = S /\ r.prio = P /\ r.ts = T /\ r.pqCnt = q.pqCnt
      /\ r.pending = M /\ r.blocked = q.blocked /\ r.provisional = q.provisional
      /\ r.iter = n /\ r.active = q.active /\ r.canceled = q.canceled
  BY <1>0, <1>6 DEF QueueState
<1>9. QInv(r)
  BY <1>1, <1>7, <1>8, LeaveIter DEF S, P, T, M, n, j, r
<1>10. get_key(q, j) \in q.pending /\ get_key(q, j).id = j
  BY DEF QInv, Cursor, get_key, j
<1>11. M = q.pending \ {get_key(q, j)}
  <2>1. \A e \in q.pending : e.id = j <=> e = get_key(q, j)
    BY <1>10, KeysDistinct
  <2> QED BY <2>1 DEF M
<1> QED BY <1>8, <1>9, <1>10, <1>11 DEF r, j

\* to_rejected keeps the invariant.
LEMMA ToRejectedInv ==
    ASSUME NEW q, QInv(q), q.active, q.iter # Nil
    PROVE  LET r == to_rejected(q, q.iter)
           IN  QInv(r) /\ r.active
<1> DEFINE j == q.iter
           s == "REJECTED"
           n == NextOf(q.pending, j)
           S == [q.state EXCEPT ![j] = s]
           P == [q.prio EXCEPT ![j] = 0]
           T == [q.ts EXCEPT ![j] = 0]
           D == [q.sched EXCEPT ![j] = NoSchedule]
           M == {e \in q.pending : e.id # j}
           r == to_rejected(q, j)
<1>0. q \in QueueState
  BY DEF QInv
<1>1. s \in JobState /\ s # "PENDING"
  BY DEF JobState
<1>2. j \in Job
  BY <1>0, Fields
<1>3. n \in Job \cup {Nil}
  BY NextType
<1>4. S \in [Job -> JobState] /\ P \in [Job -> Priority] /\ T \in [Job -> Nat]
      /\ D \in [Job -> Schedule]
  BY <1>0, <1>1, <1>2, LeaveTypes
<1>5. M \in SUBSET Entry
  BY <1>0, Fields
<1>6. r = [q EXCEPT !.state = S, !.prio = P, !.ts = T, !.sched = D,
                    !.rejected = @ \cup {j}, !.scheduled = TRUE,
                    !.iter = n, !.pending = M]
  BY DEF to_rejected, Leave
<1> HIDE DEF j, s, n, S, P, T, D, M, r
<1>7. r \in QueueState
  BY <1>0, <1>2, <1>3, <1>4, <1>5, <1>6, ZenonT(60) DEF QueueState
<1>8. /\ r.state = S /\ r.prio = P /\ r.ts = T /\ r.pqCnt = q.pqCnt
      /\ r.pending = M /\ r.blocked = q.blocked /\ r.provisional = q.provisional
      /\ r.iter = n /\ r.active = q.active /\ r.canceled = q.canceled
  BY <1>0, <1>6 DEF QueueState
<1> QED BY <1>1, <1>7, <1>8, LeaveIter DEF S, P, T, M, n, j, r

\* to_reserved keeps the invariant: the job stays pending.
LEMMA ToReservedInv ==
    ASSUME NEW q, QInv(q), q.active, q.iter # Nil, NEW at \in Nat, Policy # "fcfs"
    PROVE  LET r == to_reserved(q, q.iter, at)
           IN  QInv(r) /\ r.active
<1> DEFINE j == q.iter
           n == NextOf(q.pending, j)
           d == [at |-> at, oldAt |-> q.sched[j].at, wasReserved |-> TRUE]
           D == [q.sched EXCEPT ![j] = d]
           r == to_reserved(q, j, at)
<1>0. q \in QueueState /\ Partitioned(q) /\ Stamped(q) /\ Settled(q)
  BY DEF QInv
<1>1. j \in Job
  BY <1>0, Fields
<1>2. n \in Job \cup {Nil}
  BY NextType
<1>3. D \in [Job -> Schedule]
  <2>1. q.sched[j] \in Schedule
    BY <1>0, <1>1, Fields
  <2>2. d \in Schedule
    BY <2>1 DEF Schedule
  <2> HIDE DEF d
  <2> QED BY <1>0, <2>2, Fields
<1>4. n # Nil => get_key(q, n) \in q.pending
  BY NextIn, KeysDistinct
<1>5. r = [q EXCEPT !.sched = D, !.reserved = @ \cup {j}, !.reservationCnt = @ + 1,
                    !.iter = n, !.scheduled = TRUE]
  BY DEF to_reserved
<1>6. q.reservationCnt + 1 \in Nat
  BY <1>0, Fields
<1> HIDE DEF j, n, D, r
<1>7. r \in QueueState
  BY <1>0, <1>1, <1>2, <1>3, <1>5, <1>6, ZenonT(60) DEF QueueState
<1>8. /\ r.state = q.state /\ r.prio = q.prio /\ r.ts = q.ts /\ r.pqCnt = q.pqCnt
      /\ r.pending = q.pending /\ r.blocked = q.blocked /\ r.provisional = q.provisional
      /\ r.iter = n /\ r.active = q.active /\ r.canceled = q.canceled
  BY <1>0, <1>5 DEF QueueState
<1>9. \A i : get_key(r, i) = get_key(q, i)
  BY <1>8 DEF get_key
<1>10. Partitioned(r) /\ Stamped(r) /\ Settled(r)
  BY <1>0, <1>8, <1>9 DEF Partitioned, Stamped, Settled
<1>11. Cursor(r)
  BY <1>4, <1>8, <1>9 DEF Cursor
<1> QED BY <1>7, <1>8, <1>10, <1>11 DEF QInv, r, j

\* A busy job moves from m_pending to m_blocked, or stays where it is.
LEMMA SkipBusyInv ==
    ASSUME NEW q, QInv(q), q.active, q.iter # Nil, Policy # "fcfs"
    PROVE  LET r == skip_busy(q, q.iter)
           IN  QInv(r) /\ r.active
<1> DEFINE j == q.iter
           k == get_key(q, j)
           n == NextOf(q.pending, j)
           lost == q.sched[j].at # 0
           d == IF lost THEN [q.sched[j] EXCEPT !.at = 0, !.wasReserved = FALSE]
                        ELSE q.sched[j]
           D == [q.sched EXCEPT ![j] = d]
           M == {e \in q.pending : e.id # j}
           B == q.blocked \cup {e \in q.pending : e.id = j}
           r == skip_busy(q, j)
<1>0. q \in QueueState /\ Partitioned(q) /\ Stamped(q) /\ Cursor(q) /\ Settled(q)
  BY DEF QInv
<1>1. j \in Job /\ k \in q.pending /\ k.id = j
  BY <1>0, Fields DEF Cursor, get_key
<1>2. n \in Job \cup {Nil}
  BY NextType
<1>3. D \in [Job -> Schedule]
  <2>1. q.sched[j] \in Schedule
    BY <1>0, <1>1, Fields
  <2>2. d \in Schedule
    BY <2>1 DEF Schedule
  <2> HIDE DEF d
  <2> QED BY <1>0, <2>2, Fields
<1>4. n # Nil => /\ get_key(q, n) \in q.pending
                 /\ n # j
  <2> SUFFICES ASSUME n # Nil PROVE get_key(q, n) \in q.pending /\ n # j
    OBVIOUS
  <2>1. PICK f \in q.pending, e \in q.pending : f.id = n /\ e.id = j /\ Before(e, f)
    BY NextIn
  <2>2. e \in Entry /\ f \in Entry
    BY <1>0, Fields
  <2>3. e # f
    BY <2>1, <2>2, Order
  <2> QED BY <2>1, <2>3, KeysDistinct
<1>5. M = q.pending \ {k} /\ B = q.blocked \cup {k}
  <2>1. \A e \in q.pending : e.id = j <=> e = k
    BY <1>1, KeysDistinct
  <2> QED BY <1>1, <2>1
<1>6. M \in SUBSET Entry /\ B \in SUBSET Entry
  BY <1>0, Fields
<1>7. q.scheduledCnt + 1 \in Nat
  BY <1>0, Fields
<1>8. CASE q.tryReserve
  <2>1. r = [q EXCEPT !.sched = D, !.dirty = @ \/ lost, !.iter = n,
                      !.blocked = B, !.pending = M]
    BY <1>8 DEF skip_busy
  <2> HIDE DEF k, n, lost, D, M, B, r, j
  <2>2. r \in QueueState
    BY <1>0, <1>2, <1>3, <1>6, <2>1, ZenonT(60) DEF QueueState
  <2>3. /\ r.state = q.state /\ r.prio = q.prio /\ r.ts = q.ts /\ r.pqCnt = q.pqCnt
        /\ r.pending = M /\ r.blocked = B /\ r.provisional = q.provisional
        /\ r.iter = n /\ r.active = q.active /\ r.canceled = q.canceled
    BY <1>0, <2>1 DEF QueueState
  <2>4. \A i : get_key(r, i) = get_key(q, i)
    BY <2>3 DEF get_key
  <2>5. Partitioned(r)
    BY <1>0, <1>1, <1>5, <2>3, <2>4 DEF Partitioned
  <2>6. Stamped(r) /\ Settled(r)
    BY <1>0, <2>3 DEF Stamped, Settled
  <2>7. n # Nil => get_key(q, n) # k
    BY <1>4 DEF get_key, k
  <2>8. Cursor(r)
    BY <1>4, <1>5, <2>3, <2>4, <2>7 DEF Cursor
  <2> QED BY <2>2, <2>3, <2>5, <2>6, <2>8 DEF QInv, r, j
<1>9. CASE ~q.tryReserve
  <2>1. r = [q EXCEPT !.sched = D, !.dirty = @ \/ lost, !.iter = n,
                      !.scheduledCnt = @ + 1]
    BY <1>9 DEF skip_busy
  <2> HIDE DEF k, n, lost, D, M, B, r, j
  <2>2. r \in QueueState
    BY <1>0, <1>2, <1>3, <1>7, <2>1, ZenonT(60) DEF QueueState
  <2>3. /\ r.state = q.state /\ r.prio = q.prio /\ r.ts = q.ts /\ r.pqCnt = q.pqCnt
        /\ r.pending = q.pending /\ r.blocked = q.blocked /\ r.provisional = q.provisional
        /\ r.iter = n /\ r.active = q.active /\ r.canceled = q.canceled
    BY <1>0, <2>1 DEF QueueState
  <2>4. \A i : get_key(r, i) = get_key(q, i)
    BY <2>3 DEF get_key
  <2>5. Partitioned(r) /\ Stamped(r) /\ Settled(r)
    BY <1>0, <2>3, <2>4 DEF Partitioned, Stamped, Settled
  <2>6. Cursor(r)
    BY <1>4, <2>3, <2>4 DEF Cursor
  <2> QED BY <2>2, <2>3, <2>5, <2>6 DEF QInv, r, j
<1> QED BY <1>8, <1>9

\* Changes of fields the invariant does not mention.
LEMMA CountInv ==
    ASSUME NEW q, QInv(q), NEW c \in Nat
    PROVE  LET r == [q EXCEPT !.scheduledCnt = c]
           IN  QInv(r) /\ r.active = q.active /\ r.iter = q.iter
<1> DEFINE r == [q EXCEPT !.scheduledCnt = c]
<1>0. q \in QueueState
  BY DEF QInv
<1>1. r \in QueueState
  BY <1>0 DEF QueueState
<1>2. /\ r.state = q.state /\ r.prio = q.prio /\ r.ts = q.ts /\ r.pqCnt = q.pqCnt
      /\ r.pending = q.pending /\ r.blocked = q.blocked
      /\ r.provisional = q.provisional /\ r.iter = q.iter /\ r.active = q.active
      /\ r.canceled = q.canceled
  BY <1>0 DEF QueueState
<1> HIDE DEF r
<1> QED BY <1>1, <1>2, SameInv DEF r

\* What a method that drives a backfill loop leaves behind: the loop is over, or
\* it is active and one request for the iterator's job was sent.
Driven(n) ==
    /\ QInv(n.q)
    /\ \/ n.send = << >> /\ ~n.q.active
       \/ \E b \in BOOLEAN : /\ n.send = << [jobs |-> <<n.q.iter>>, reserve |-> b] >>
                             /\ n.q.active /\ n.q.iter # Nil

\* next_match_iter ends the loop or sends one request.
LEMMA NextMatchIterInv ==
    ASSUME NEW q, QInv(q), q.active
    PROVE  Driven(next_match_iter(q))
<1> DEFINE n == next_match_iter(q)
           reachedDepth == q.scheduledCnt >= QueueDepth
           reachedEnd   == q.iter = Nil
           restart      == reachedDepth /\ ~reachedEnd /\ q.scheduled
           try          == q.reservationCnt < ReservationDepth
<1>0. q \in QueueState
  BY DEF QInv
<1>1. CASE reachedDepth \/ reachedEnd
  <2> DEFINE e == EndSchedLoop(q)
             r == [e EXCEPT !.schedulable = @ \/ restart]
  <2>1. QInv(e) /\ ~e.active
    BY EndInv
  <2>2. n = [q |-> r, send |-> << >>]
    BY <1>1 DEF next_match_iter
  <2> HIDE DEF e, restart, n
  <2>3. e \in QueueState
    BY <2>1 DEF QInv
  <2>4. r \in QueueState
    BY <2>3 DEF QueueState
  <2>5. /\ r.state = e.state /\ r.prio = e.prio /\ r.ts = e.ts /\ r.pqCnt = e.pqCnt
        /\ r.pending = e.pending /\ r.blocked = e.blocked
        /\ r.provisional = e.provisional /\ r.iter = e.iter /\ r.active = e.active
        /\ r.canceled = e.canceled
    BY <2>3 DEF QueueState
  <2> HIDE DEF r
  <2>6. QInv(r)
    BY <2>1, <2>4, <2>5, SameInv
  <2> QED BY <2>1, <2>2, <2>5, <2>6 DEF Driven, n
<1>2. CASE ~(reachedDepth \/ reachedEnd)
  <2> DEFINE r == [q EXCEPT !.tryReserve = try]
  <2>1. n = [q |-> r, send |-> << [jobs |-> <<q.iter>>, reserve |-> try] >>]
    BY <1>2 DEF next_match_iter
  <2>2. try \in BOOLEAN /\ q.iter # Nil
    BY <1>2
  <2> HIDE DEF try, n
  <2>3. r \in QueueState
    BY <1>0, <2>2 DEF QueueState
  <2>4. /\ r.state = q.state /\ r.prio = q.prio /\ r.ts = q.ts /\ r.pqCnt = q.pqCnt
        /\ r.pending = q.pending /\ r.blocked = q.blocked
        /\ r.provisional = q.provisional /\ r.iter = q.iter /\ r.active = q.active
        /\ r.canceled = q.canceled
    BY <1>0 DEF QueueState
  <2> HIDE DEF r
  <2>5. QInv(r)
    BY <2>3, <2>4, SameInv
  <2>6. n.q = r /\ n.send = << [jobs |-> <<r.iter>>, reserve |-> try] >>
    BY <2>1, <2>4
  <2> QED BY <2>2, <2>4, <2>5, <2>6 DEF Driven, n
<1> QED BY <1>1, <1>2

-----------------------------------------------------------------------------
\* A finite map with distinct keys has an entry of every rank.
LEMMA RankOnto ==
    ASSUME NEW M, M \subseteq Entry, IsFiniteSet(M),
           \A e, f \in M : SameKey(e, f) => e = f,
           NEW i \in 1..Cardinality(M)
    PROVE  \E e \in M : Rank(M, e) = i - 1
<1> DEFINE c == Cardinality(M)
           D(e) == {f \in M : Before(f, e)}
           R == [e \in M |-> Rank(M, e)]
<1>1. c \in Nat
  BY FS_CardinalityType
<1>2. ASSUME NEW e \in M
      PROVE  IsFiniteSet(D(e)) /\ Rank(M, e) \in 0..(c - 1)
  <2>1. ~Before(e, e)
    BY Order
  <2>2. D(e) \in SUBSET (M \ {e})
    BY <2>1
  <2>3. IsFiniteSet(M \ {e}) /\ Cardinality(M \ {e}) = c - 1
    BY FS_RemoveElement
  <2>4. IsFiniteSet(D(e)) /\ Cardinality(D(e)) <= c - 1
    BY <2>2, <2>3, FS_Subset
  <2>5. Cardinality(D(e)) \in Nat
    BY <2>4, FS_CardinalityType
  <2>6. Rank(M, e) = Cardinality(D(e))
    BY DEF Rank
  <2> QED BY <1>1, <2>4, <2>5, <2>6
<1>3. ASSUME NEW e \in M, NEW f \in M, Before(e, f)
      PROVE  Rank(M, e) # Rank(M, f)
  <2>1. D(e) \in SUBSET D(f)
    BY <1>3, Order
  <2>2. e \in D(f) /\ e \notin D(e)
    BY <1>3, Order
  <2>3. Cardinality(D(f)) # Cardinality(D(e))
    BY <1>2, <2>1, <2>2, FS_Subset
  <2> QED BY <2>3 DEF Rank
<1>4. R \in Injection(M, 0..(c - 1))
  <2>1. R \in [M -> 0..(c - 1)]
    BY <1>2
  <2>2. ASSUME NEW e \in M, NEW f \in M, R[e] = R[f] PROVE e = f
    BY <1>3, <2>2, Order
  <2> HIDE DEF R, c
  <2> QED BY <2>1, <2>2 DEF Injection, IsInjective
<1>5. IsFiniteSet(0..(c - 1)) /\ Cardinality(0..(c - 1)) = c
  <2> HIDE DEF c
  <2>1. c - 1 \in Int /\ 0 \in Int
    BY <1>1
  <2>2. /\ IsFiniteSet(0..(c - 1))
        /\ Cardinality(0..(c - 1)) = IF 0 > c - 1 THEN 0 ELSE (c - 1) - 0 + 1
    BY <2>1, FS_Interval
  <2> QED BY <1>1, <2>2
<1>6. R \in Surjection(M, 0..(c - 1))
  <2> HIDE DEF R, c
  <2> QED BY <1>4, <1>5, FS_Injection DEF c
<1>7. i - 1 \in 0..(c - 1)
  BY <1>1
<1>8. \E e \in M : R[e] = i - 1
  BY <1>6, <1>7 DEF Surjection
<1> QED BY <1>8

\* Each of the maps is finite and has distinct keys.
LEMMA MapFinite ==
    ASSUME NEW q, QInv(q), NEW M, M \subseteq q.pending \cup q.blocked \cup q.provisional
    PROVE  /\ M \subseteq Entry /\ IsFiniteSet(M)
           /\ \A e, f \in M : SameKey(e, f) => e = f
<1> DEFINE I == [e \in M |-> e.id]
<1>1. M \subseteq Entry
  BY Fields DEF QInv
<1>2. \A e, f \in M : (SameKey(e, f) => e = f) /\ (e.id = f.id => e = f) /\ e.id \in Job
  BY KeysDistinct
<1>3. I \in Injection(M, Job)
  BY <1>2 DEF Injection, IsInjective
<1>4. IsFiniteSet(M)
  <2> HIDE DEF I
  <2> QED BY <1>3, BaseAssumption, FS_Injection
<1> QED BY <1>1, <1>2, <1>4

\* A map that is not empty has a first job.
LEMMA BeginExists ==
    ASSUME NEW M, M \subseteq Entry, IsFiniteSet(M), M # {},
           \A e, f \in M : SameKey(e, f) => e = f
    PROVE  BeginOf(M) \in {e.id : e \in M}
<1>1. 1 \in 1..Cardinality(M)
  BY FS_EmptySet, FS_CardinalityType
<1>2. PICK e \in M : Rank(M, e) = 0
  BY <1>1, RankOnto
<1>3. {f \in M : Before(f, e)} = {}
  <2> DEFINE D == {f \in M : Before(f, e)}
  <2>1. IsFiniteSet(D) /\ Cardinality(D) = 0
    BY <1>2, FS_Subset DEF Rank
  <2> HIDE DEF D
  <2>2. D = {}
    BY <2>1, FS_EmptySet
  <2> QED BY <2>2 DEF D
<1>4. e \in Least(M)
  BY <1>3, Order DEF Least
<1> QED BY <1>4 DEF BeginOf, Least

\* pack_jobs sends a sequence of jobs, no more of them than are pending.
LEMMA PackJobs ==
    ASSUME NEW q, NEW M, q.pending = M, M \subseteq Entry, IsFiniteSet(M),
           \A e, f \in M : SameKey(e, f) => e = f
    PROVE  /\ pack_jobs(q) \in Seq(Job)
           /\ Len(pack_jobs(q)) <= Cardinality(M)
<1> DEFINE W == WithinDepth(M)
           n == Cardinality(W)
           J(i) == (CHOOSE e \in M : Rank(M, e) = i - 1).id
<1>1. W \in SUBSET M
  BY DEF WithinDepth
<1>2. IsFiniteSet(W) /\ n <= Cardinality(M)
  BY <1>1, FS_Subset
<1>3. n \in Nat /\ Cardinality(M) \in Nat
  BY <1>2, FS_CardinalityType
<1>4. ASSUME NEW i \in 1..n PROVE J(i) \in Job
  <2>1. i \in 1..Cardinality(M)
    BY <1>2, <1>3
  <2>2. \E e \in M : Rank(M, e) = i - 1
    BY <2>1, RankOnto
  <2> QED BY <2>2 DEF Entry
<1>5. pack_jobs(q) = [i \in 1..n |-> J(i)]
  BY DEF pack_jobs
<1> HIDE DEF n, J
<1>6. [i \in 1..n |-> J(i)] \in Seq(Job) /\ Len([i \in 1..n |-> J(i)]) = n
  BY <1>3, <1>4
<1> QED BY <1>2, <1>5, <1>6 DEF n

-----------------------------------------------------------------------------
\* A scheduling loop starts by merging m_pending_provisional into m_pending.
LEMMA MergeInv ==
    ASSUME NEW q, QInv(q), NEW r \in QueueState,
           r.state = q.state, r.prio = q.prio, r.ts = q.ts, r.pqCnt = q.pqCnt,
           r.pending = q.pending \cup q.provisional, r.blocked = q.blocked,
           r.provisional = {}, r.canceled = q.canceled,
           r.iter = BeginOf(r.pending), r.active \/ r.pending = {}
    PROVE  QInv(r)
<1>0. q \in QueueState /\ Partitioned(q) /\ Stamped(q) /\ Settled(q)
  BY DEF QInv
<1>1. \A j : get_key(r, j) = get_key(q, j)
  BY DEF get_key
<1>2. Partitioned(r) /\ Stamped(r) /\ Settled(r)
  BY <1>0, <1>1 DEF Partitioned, Stamped, Settled
<1>3. r.iter # Nil => get_key(r, r.iter) \in r.pending
  BY <1>1, BeginIn, KeysDistinct
<1>4. Cursor(r)
  BY <1>3 DEF Cursor
<1> QED BY <1>2, <1>4 DEF QInv

\* The first job of the merged map.
LEMMA MergeBegin ==
    ASSUME NEW q, QInv(q)
    PROVE  LET m == q.pending \cup q.provisional
           IN  m \in SUBSET Entry /\ BeginOf(m) \in Job \cup {Nil}
<1>1. \A e \in q.pending \cup q.provisional : e.id \in Job
  BY KeysDistinct
<1>2. q.pending \cup q.provisional \in SUBSET Entry
  BY Fields DEF QInv
<1> QED BY <1>1, <1>2, BeginIn

\* allocate_orelse_reserve_jobs starts a loop.
LEMMA AllocateOrelseReserveInv ==
    ASSUME NEW q, QInv(q)
    PROVE  Driven(allocate_orelse_reserve_jobs(q))
<1> DEFINE m == q.pending \cup q.provisional
           b == BeginOf(m)
           r == [q EXCEPT !.pending = m, !.provisional = {}, !.iter = b, !.active = TRUE,
                          !.reservationCnt = 0, !.scheduledCnt = 0]
<1>0. q \in QueueState
  BY DEF QInv
<1>1. m \in SUBSET Entry /\ b \in Job \cup {Nil}
  BY MergeBegin
<1>2. allocate_orelse_reserve_jobs(q) = next_match_iter(r)
  BY DEF allocate_orelse_reserve_jobs
<1> HIDE DEF m, b
<1>3. r \in QueueState
  BY <1>0, <1>1 DEF QueueState
<1>4. /\ r.state = q.state /\ r.prio = q.prio /\ r.ts = q.ts /\ r.pqCnt = q.pqCnt
      /\ r.pending = m /\ r.blocked = q.blocked /\ r.provisional = {}
      /\ r.iter = b /\ r.active /\ r.canceled = q.canceled
  BY <1>0 DEF QueueState
<1> HIDE DEF r
<1>5. QInv(r)
  BY <1>3, <1>4, MergeInv DEF m, b
<1> QED BY <1>2, <1>4, <1>5, NextMatchIterInv

\* A backfill run_sched_loop leaves an active loop alone and starts one otherwise.
LEMMA BackfillRunInv ==
    ASSUME NEW q, QInv(q), NEW ok
    PROVE  LET n == bf_run_sched_loop(q, ok)
           IN  IF q.active THEN n.q = q /\ n.send = << >> ELSE Driven(n)
<1> DEFINE r == [q EXCEPT !.schedulable = FALSE, !.reserved = {}]
           n == bf_run_sched_loop(q, ok)
<1>0. q \in QueueState
  BY DEF QInv
<1>1. r \in QueueState
  BY <1>0 DEF QueueState
<1>2. /\ r.state = q.state /\ r.prio = q.prio /\ r.ts = q.ts /\ r.pqCnt = q.pqCnt
      /\ r.pending = q.pending /\ r.blocked = q.blocked
      /\ r.provisional = q.provisional /\ r.iter = q.iter /\ r.active = q.active
      /\ r.canceled = q.canceled
  BY <1>0 DEF QueueState
<1>3. n = IF q.active THEN [q |-> q, send |-> << >>]
          ELSE IF ~ok THEN [q |-> r, send |-> << >>]
          ELSE allocate_orelse_reserve_jobs(r)
  BY DEF bf_run_sched_loop
<1> HIDE DEF r, n
<1>4. QInv(r)
  BY <1>1, <1>2, SameInv
<1>5. CASE q.active
  BY <1>3, <1>5 DEF n
<1>6. CASE ~q.active /\ ~ok
  BY <1>2, <1>3, <1>4, <1>6 DEF n, Driven
<1>7. CASE ~q.active /\ ok
  BY <1>3, <1>4, <1>7, AllocateOrelseReserveInv DEF n
<1> QED BY <1>5, <1>6, <1>7

\* A match success about the iterator's job drives the loop on.
LEMMA BackfillSuccessInv ==
    ASSUME NEW q, QInv(q), q.active, q.iter # Nil, Policy # "fcfs",
           NEW status, NEW at \in Nat
    PROVE  LET n == bf_handle_match_success(q, q.iter, status, at)
           IN  Driven(n) /\ n.rc = TRUE
<1> DEFINE r == IF status = "RESERVED" THEN to_reserved(q, q.iter, at)
                                       ELSE to_running(q, q.iter)
           s == [r EXCEPT !.scheduledCnt = @ + 1]
           m == next_match_iter(s)
           n == bf_handle_match_success(q, q.iter, status, at)
<1>1. n = [q |-> m.q, send |-> m.send, rc |-> TRUE]
  BY DEF bf_handle_match_success
<1>2. QInv(r) /\ r.active
  BY ToReservedInv, ToRunningInv
<1> HIDE DEF r
<1>3. r.scheduledCnt + 1 \in Nat
  BY <1>2, Fields DEF QInv
<1>4. QInv(s) /\ s.active
  BY <1>2, <1>3, CountInv
<1> HIDE DEF s
<1>5. Driven(m)
  BY <1>4, NextMatchIterInv
<1> HIDE DEF m, n
<1>6. n.q = m.q /\ n.send = m.send /\ n.rc = TRUE
  BY <1>1
<1>7. Driven(n)
  BY <1>5, <1>6 DEF Driven
<1> QED BY <1>6, <1>7 DEF n

\* So does a match failure that is not the end of a stream.
LEMMA BackfillFailureInv ==
    ASSUME NEW q, QInv(q), q.active, q.iter # Nil, Policy # "fcfs",
           NEW err, err # "ENODATA"
    PROVE  Driven(bf_handle_match_failure(q, err))
<1> DEFINE r == to_rejected(q, q.iter)
           s == [r EXCEPT !.scheduledCnt = @ + 1]
           b == skip_busy(q, q.iter)
<1>1. bf_handle_match_failure(q, err) =
        IF err = "EBUSY" THEN next_match_iter(b) ELSE next_match_iter(s)
  BY DEF bf_handle_match_failure
<1>2. QInv(r) /\ r.active
  BY ToRejectedInv
<1>3. QInv(b) /\ b.active
  BY SkipBusyInv
<1> HIDE DEF r, b
<1>4. r.scheduledCnt + 1 \in Nat
  BY <1>2, Fields DEF QInv
<1>5. QInv(s) /\ s.active
  BY <1>2, <1>4, CountInv
<1> HIDE DEF s
<1> QED BY <1>1, <1>3, <1>5, NextMatchIterInv

-----------------------------------------------------------------------------
\* An fcfs run_sched_loop leaves an active loop alone; otherwise the request it
\* sends names at most as many jobs as are pending.
LEMMA FcfsRunInv ==
    ASSUME NEW q, QInv(q)
    PROVE  LET n == fcfs_run_sched_loop(q)
           IN  IF q.active THEN n.q = q /\ n.send = << >>
               ELSE /\ QInv(n.q)
                    /\ \/ n.send = << >> /\ ~n.q.active
                       \/ \E J \in Seq(Job) :
                             /\ n.send = << [jobs |-> J, reserve |-> FALSE] >>
                             /\ Len(J) <= Cardinality(n.q.pending)
                             /\ n.q.active
<1> DEFINE o == [q EXCEPT !.schedulable = FALSE]
           m == q.pending \cup q.provisional
           b == BeginOf(m)
           r == [o EXCEPT !.pending = m, !.provisional = {}, !.iter = b]
           big == Cardinality(m) > QueueDepth
           s == [r EXCEPT !.active = TRUE, !.limit = @ \/ big]
           n == fcfs_run_sched_loop(q)
<1>0. q \in QueueState
  BY DEF QInv
<1>1. CASE q.active
  BY <1>1 DEF fcfs_run_sched_loop
<1>2. CASE ~q.active
  <2>1. m \in SUBSET Entry /\ b \in Job \cup {Nil}
    BY MergeBegin
  <2>2. o.pending = q.pending /\ o.provisional = q.provisional
    BY <1>0 DEF QueueState
  <2>3. n = IF m = {} THEN [q |-> r, send |-> << >>]
            ELSE [q |-> s, send |-> << [jobs |-> pack_jobs(r), reserve |-> FALSE] >>]
    BY <1>2, <2>2 DEF fcfs_run_sched_loop, allocate_jobs
  <2>4. r = [q EXCEPT !.schedulable = FALSE, !.pending = m, !.provisional = {}, !.iter = b]
    OBVIOUS
  <2>5. /\ m \subseteq Entry /\ IsFiniteSet(m)
        /\ \A e, f \in m : SameKey(e, f) => e = f
    BY MapFinite
  <2> HIDE DEF m, b, big, n
  <2>6. r \in QueueState /\ s \in QueueState
    BY <1>0, <2>1, ZenonT(60) DEF QueueState
  <2>7. /\ r.state = q.state /\ r.prio = q.prio /\ r.ts = q.ts /\ r.pqCnt = q.pqCnt
        /\ r.pending = m /\ r.blocked = q.blocked /\ r.provisional = {}
        /\ r.iter = b /\ r.active = q.active /\ r.canceled = q.canceled
    BY <1>0 DEF QueueState
  <2>8. /\ s.state = q.state /\ s.prio = q.prio /\ s.ts = q.ts /\ s.pqCnt = q.pqCnt
        /\ s.pending = m /\ s.blocked = q.blocked /\ s.provisional = {}
        /\ s.iter = b /\ s.active /\ s.canceled = q.canceled
    BY <1>0 DEF QueueState
  <2> HIDE DEF r, s
  <2>9. CASE m = {}
    <3>1. QInv(r)
      BY <2>6, <2>7, <2>9, MergeInv DEF m, b
    <3> QED BY <1>2, <2>3, <2>7, <2>9, <3>1 DEF n
  <2>10. CASE m # {}
    <3>1. QInv(s)
      BY <2>6, <2>8, MergeInv DEF m, b
    <3>2. pack_jobs(r) \in Seq(Job) /\ Len(pack_jobs(r)) <= Cardinality(m)
      BY <2>5, <2>7, PackJobs
    <3>3. n.q = s /\ n.send = << [jobs |-> pack_jobs(r), reserve |-> FALSE] >>
      BY <2>3, <2>10
    <3> QED BY <1>2, <2>8, <3>1, <3>2, <3>3 DEF n
  <2> QED BY <2>9, <2>10
<1> QED BY <1>1, <1>2

\* The end of the stream ends the loop.  A failure that rejects a job needs one.
LEMMA FcfsFailureInv ==
    ASSUME NEW q, QInv(q), q.active, NEW err,
           err \notin {"EBUSY", "ENODATA"} => q.iter # Nil
    PROVE  LET r == fcfs_handle_match_failure(q, err) IN QInv(r) /\ ~r.active
<1> DEFINE more == err = "ENODEV" \/ (err = "ENODATA" /\ q.limit)
           r == IF err \in {"EBUSY", "ENODATA"} THEN q ELSE to_rejected(q, q.iter)
           s == [r EXCEPT !.schedulable = @ \/ more, !.limit = @ /\ err # "ENODATA"]
           e == EndSchedLoop(s)
           t == [e EXCEPT !.scheduled = TRUE]
<1>1. fcfs_handle_match_failure(q, err) = t
  BY DEF fcfs_handle_match_failure
<1>2. QInv(r)
  BY ToRejectedInv
<1> HIDE DEF r, more
<1>3. r \in QueueState
  BY <1>2 DEF QInv
<1>4. s \in QueueState
  BY <1>3, ZenonT(60) DEF QueueState
<1>5. /\ s.state = r.state /\ s.prio = r.prio /\ s.ts = r.ts /\ s.pqCnt = r.pqCnt
      /\ s.pending = r.pending /\ s.blocked = r.blocked
      /\ s.provisional = r.provisional /\ s.iter = r.iter /\ s.active = r.active
      /\ s.canceled = r.canceled
  BY <1>3 DEF QueueState
<1> HIDE DEF s
<1>6. QInv(s)
  BY <1>2, <1>4, <1>5, SameInv
<1>7. QInv(e) /\ ~e.active
  BY <1>6, EndInv
<1> HIDE DEF e
<1>8. e \in QueueState
  BY <1>7 DEF QInv
<1>9. t \in QueueState
  BY <1>8 DEF QueueState
<1>10. /\ t.state = e.state /\ t.prio = e.prio /\ t.ts = e.ts /\ t.pqCnt = e.pqCnt
       /\ t.pending = e.pending /\ t.blocked = e.blocked
       /\ t.provisional = e.provisional /\ t.iter = e.iter /\ t.active = e.active
       /\ t.canceled = e.canceled
  BY <1>8 DEF QueueState
<1> HIDE DEF t
<1>11. QInv(t)
  BY <1>7, <1>9, <1>10, SameInv
<1> QED BY <1>1, <1>7, <1>10, <1>11


-----------------------------------------------------------------------------
(***************************************************************************)
(* What the methods of a queue do to the answers that are due, to the      *)
(* reservations, to the deferred requests and to the wish for another      *)
(* loop.  Most methods are Calm: they cancel pending jobs at most, and     *)
(* leave what an active loop works on alone.  The others decide about the  *)
(* iterator's job, and then end the loop or ask for the next match.        *)
(***************************************************************************)

\* Pending jobs may have been canceled; no other answer has become due.
Settles(q, r) ==
    /\ r.alloced = q.alloced /\ r.rejected = q.rejected /\ r.running = q.running
    /\ q.canceled \subseteq r.canceled
    /\ \A j \in Job : \/ r.state[j] = q.state[j] /\ (j \in r.canceled => j \in q.canceled)
                      \/ q.state[j] = "PENDING" /\ r.state[j] = "CANCELED" /\ j \in r.canceled

\* A job in m_pending_provisional keeps the queue schedulable.
Wakes(q) == q.provisional # {} => q.schedulable

\* What a method does that works for the job manager or at the end of a loop.
Calm(q, r) ==
    /\ Settles(q, r)
    /\ r.active = q.active /\ r.reserved = q.reserved
    /\ r.reservationCnt = q.reservationCnt /\ r.tryReserve = q.tryReserve
    /\ Wakes(q) => Wakes(r)

\* No deferred request is left.
Drained(q) == q.cancelProv = << >> /\ q.reprioProv = << >> /\ ~q.reconsider

\* Every deferred request names a job that m_jobs has.
Known(q) ==
    /\ \A i \in DOMAIN q.cancelProv : q.state[q.cancelProv[i]] # "NONE"
    /\ \A i \in DOMAIN q.reprioProv : q.state[q.reprioProv[i].id] # "NONE"

\* A deferred request makes a backfill loop end at its next response.
Ripe(q) == q.cancelProv # << >> \/ q.reprioProv # << >> => q.scheduledCnt >= QueueDepth

\* The deferred requests of a backfill policy: none outlives its loop, and the
\* jobs they name are pending as long as the loop is active.
Deferring(q) ==
    /\ ~q.active => Drained(q)
    /\ q.active =>
          /\ Ripe(q)
          /\ \A i \in DOMAIN q.cancelProv : q.state[q.cancelProv[i]] = "PENDING"
          /\ \A i \in DOMAIN q.reprioProv : q.state[q.reprioProv[i].id] = "PENDING"

-----------------------------------------------------------------------------
\* Settles and Calm compose.
LEMMA Composes ==
    ASSUME NEW q, NEW r, NEW s
    PROVE  /\ Settles(q, q) /\ Calm(q, q)
           /\ Settles(q, r) /\ Settles(r, s) => Settles(q, s)
           /\ Calm(q, r) /\ Calm(r, s) => Calm(q, s)
<1>1. Settles(q, q) /\ Calm(q, q)
  BY DEF Settles, Calm
<1>2. ASSUME Settles(q, r), Settles(r, s) PROVE Settles(q, s)
  BY <1>2 DEF Settles
<1> QED BY <1>1, <1>2 DEF Calm

\* A step that leaves all of these fields alone is calm.
LEMMA SameCalm ==
    ASSUME NEW q, NEW r,
           r.state = q.state, r.alloced = q.alloced, r.rejected = q.rejected,
           r.running = q.running, r.canceled = q.canceled, r.active = q.active,
           r.reserved = q.reserved, r.reservationCnt = q.reservationCnt,
           r.tryReserve = q.tryReserve, r.provisional = q.provisional,
           q.schedulable => r.schedulable
    PROVE  Calm(q, r)
  BY DEF Calm, Settles, Wakes

\* The deferred requests of jobs that are known are all handled.
LEMMA NoneUnknown ==
    ASSUME NEW q, Known(q)
    PROVE  /\ Unknown(q, q.cancelProv) = {}
           /\ Unknown(q, ReprioIds(q)) = {}
<1>1. Unknown(q, q.cancelProv) = {}
  BY DEF Unknown, Known
<1>2. Unknown(q, ReprioIds(q)) = {}
  BY DEF Unknown, Known, ReprioIds
<1> QED BY <1>1, <1>2

\* process_provisional_reconsider is calm.
LEMMA ReconsiderCalm ==
    ASSUME NEW q, QInv(q)
    PROVE  LET r == process_provisional_reconsider(q)
           IN  /\ Calm(q, r) /\ ~r.reconsider
               /\ r.cancelProv = q.cancelProv /\ r.reprioProv = q.reprioProv
<1> DEFINE r == [q EXCEPT !.reconsider  = FALSE,
                          !.pending     = @ \cup q.blocked,
                          !.blocked     = {},
                          !.schedulable = @ \/ q.blocked # {}]
<1>0. q \in QueueState
  BY DEF QInv
<1>1. CASE ~q.reconsider
  <2>1. process_provisional_reconsider(q) = q
    BY <1>1 DEF process_provisional_reconsider
  <2> QED BY <1>1, <2>1, Composes
<1>2. CASE q.reconsider
  <2>1. process_provisional_reconsider(q) = r
    BY <1>2 DEF process_provisional_reconsider
  <2>2. /\ r.state = q.state /\ r.alloced = q.alloced /\ r.rejected = q.rejected
        /\ r.running = q.running /\ r.canceled = q.canceled /\ r.active = q.active
        /\ r.reserved = q.reserved /\ r.reservationCnt = q.reservationCnt
        /\ r.tryReserve = q.tryReserve /\ r.provisional = q.provisional
        /\ r.cancelProv = q.cancelProv /\ r.reprioProv = q.reprioProv
        /\ r.reconsider = FALSE /\ r.schedulable = (q.schedulable \/ q.blocked # {})
    BY <1>0 DEF QueueState
  <2> HIDE DEF r
  <2>3. Calm(q, r)
    BY <2>2, SameCalm
  <2> QED BY <2>1, <2>2, <2>3
<1> QED BY <1>1, <1>2

\* process_provisional_reprio is calm.
LEMMA ReprioCalm ==
    ASSUME NEW q, QInv(q)
    PROVE  LET r == process_provisional_reprio(q)
           IN  /\ Calm(q, r) /\ r.state = q.state /\ r.cancelProv = q.cancelProv
               /\ ~q.reconsider => ~r.reconsider
               /\ Known(q) => r.reprioProv = << >>
<1> DEFINE r    == process_provisional_reprio(q)
           some == Effective(q, ReprioIds(q)) # {}
           P    == [j \in Job |-> NewPriority(q, j)]
           M    == Rekey(q, q.pending \cup (IF some THEN q.blocked ELSE {}))
           B    == IF some THEN {} ELSE q.blocked
           V    == Rekey(q, q.provisional)
           rest == Remaining(q, ReprioIds(q), q.reprioProv)
           able == q.schedulable \/ some
           late == q.reconsider /\ ~some
<1>0. q \in QueueState
  BY DEF QInv
<1>1. r = [q EXCEPT !.prio = P, !.pending = M, !.blocked = B, !.provisional = V,
                    !.schedulable = able, !.reconsider = late, !.reprioProv = rest]
  BY DEF process_provisional_reprio
<1>2. /\ V # {} => q.provisional # {}
      /\ q.schedulable => able
      /\ ~q.reconsider => ~late
  BY DEF Rekey
<1>3. Known(q) => rest = << >>
  BY NoneUnknown DEF Remaining
<1> HIDE DEF r, some, P, M, B, V, rest, able, late
<1>4. /\ r.state = q.state /\ r.alloced = q.alloced /\ r.rejected = q.rejected
      /\ r.running = q.running /\ r.canceled = q.canceled /\ r.active = q.active
      /\ r.reserved = q.reserved /\ r.reservationCnt = q.reservationCnt
      /\ r.tryReserve = q.tryReserve /\ r.provisional = V
      /\ r.cancelProv = q.cancelProv /\ r.reprioProv = rest
      /\ r.reconsider = late /\ r.schedulable = able
  BY <1>0, <1>1 DEF QueueState
<1>5. Calm(q, r)
  BY <1>2, <1>4 DEF Calm, Settles, Wakes
<1> QED BY <1>2, <1>3, <1>4, <1>5 DEF r

\* process_provisional_cancel is calm: it cancels pending jobs.
LEMMA CancelCalm ==
    ASSUME NEW q, QInv(q)
    PROVE  LET r == process_provisional_cancel(q)
           IN  /\ Calm(q, r) /\ r.reprioProv = q.reprioProv /\ r.reconsider = q.reconsider
               /\ Unknown(q, q.cancelProv) = {} => r.cancelProv = << >>
<1> DEFINE r    == process_provisional_cancel(q)
           gone == {q.cancelProv[i] : i \in Effective(q, q.cancelProv)}
           Keep(M) == {e \in M : e.id \notin gone}
           S == [j \in Job |-> IF j \in gone THEN "CANCELED" ELSE q.state[j]]
           P == [j \in Job |-> IF j \in gone THEN 0 ELSE q.prio[j]]
           T == [j \in Job |-> IF j \in gone THEN 0 ELSE q.ts[j]]
           D == [j \in Job |-> IF j \in gone THEN NoSchedule ELSE q.sched[j]]
           able == q.schedulable \/ gone # {}
           rest == Remaining(q, q.cancelProv, q.cancelProv)
<1>0. q \in QueueState
  BY DEF QInv
<1>1. \A j \in gone : j \in Job /\ q.state[j] = "PENDING"
  BY <1>0, Fields DEF Effective, Handled
<1>2. r = [q EXCEPT !.state = S, !.prio = P, !.ts = T, !.sched = D,
                    !.pending = Keep(q.pending), !.blocked = Keep(q.blocked),
                    !.provisional = Keep(q.provisional),
                    !.canceled = q.canceled \cup gone,
                    !.schedulable = able, !.cancelProv = rest]
  BY DEF process_provisional_cancel
<1>3. Unknown(q, q.cancelProv) = {} => rest = << >>
  BY DEF Remaining
<1>4. /\ Keep(q.provisional) # {} => q.provisional # {}
      /\ q.schedulable => able
  OBVIOUS
<1>5. /\ \A j \in gone : S[j] = "CANCELED"
      /\ \A j \in Job \ gone : S[j] = q.state[j]
  BY <1>1
<1> HIDE DEF r, gone, Keep, S, P, T, D, able, rest
<1>6. /\ r.state = S /\ r.alloced = q.alloced /\ r.rejected = q.rejected
      /\ r.running = q.running /\ r.canceled = q.canceled \cup gone /\ r.active = q.active
      /\ r.reserved = q.reserved /\ r.reservationCnt = q.reservationCnt
      /\ r.tryReserve = q.tryReserve /\ r.provisional = Keep(q.provisional)
      /\ r.cancelProv = rest /\ r.reprioProv = q.reprioProv
      /\ r.reconsider = q.reconsider /\ r.schedulable = able
  BY <1>0, <1>2 DEF QueueState
<1>7. Settles(q, r)
  BY <1>1, <1>5, <1>6 DEF Settles
<1>8. Calm(q, r)
  BY <1>4, <1>6, <1>7 DEF Calm, Wakes
<1> QED BY <1>3, <1>6, <1>8 DEF r

\* The end of a loop: deferred requests are carried out, and none is left if
\* every job they name is known.
LEMMA EndEffect ==
    ASSUME NEW q, QInv(q)
    PROVE  LET r == EndSchedLoop(q)
           IN  /\ Settles(q, r) /\ r.reserved = q.reserved /\ r.reservationCnt = 0
               /\ Wakes(q) => Wakes(r)
               /\ Known(q) => Drained(r)
<1> DEFINE x == [q EXCEPT !.active = FALSE, !.iter = Nil, !.tryReserve = FALSE,
                          !.reservationCnt = 0, !.scheduledCnt = 0]
<1>0. q \in QueueState
  BY DEF QInv
<1>1. x \in QueueState
  BY <1>0 DEF QueueState
<1>2. /\ x.state = q.state /\ x.prio = q.prio /\ x.ts = q.ts /\ x.pqCnt = q.pqCnt
      /\ x.pending = q.pending /\ x.blocked = q.blocked
      /\ x.provisional = q.provisional /\ x.iter = Nil /\ ~x.active
      /\ x.canceled = q.canceled
      /\ x.alloced = q.alloced /\ x.rejected = q.rejected /\ x.running = q.running
      /\ x.reserved = q.reserved /\ x.reservationCnt = 0
      /\ x.schedulable = q.schedulable
      /\ x.cancelProv = q.cancelProv /\ x.reprioProv = q.reprioProv
  BY <1>0 DEF QueueState
<1> HIDE DEF x
<1>3. QInv(x)
  BY <1>1, <1>2, SameInv
<1>4. Settles(q, x) /\ (Wakes(q) => Wakes(x)) /\ (Known(q) => Known(x))
  BY <1>2 DEF Settles, Wakes, Known
<1> DEFINE y == process_provisional_reprio(x)
           z == process_provisional_cancel(y)
           r == process_provisional_reconsider(z)
<1>5. EndSchedLoop(q) = r
  BY DEF EndSchedLoop, x
<1>6. QInv(y) /\ ~y.active
  BY <1>2, <1>3, ReprioInv
<1>7. /\ Calm(x, y) /\ y.state = x.state /\ y.cancelProv = x.cancelProv
      /\ Known(x) => y.reprioProv = << >>
  BY <1>3, ReprioCalm
<1> HIDE DEF y
<1>8. QInv(z) /\ ~z.active
  BY <1>6, CancelInv
<1>9. /\ Calm(y, z) /\ z.reprioProv = y.reprioProv
      /\ Unknown(y, y.cancelProv) = {} => z.cancelProv = << >>
  BY <1>6, CancelCalm
<1> HIDE DEF z
<1>10. /\ Calm(z, r) /\ ~r.reconsider
       /\ r.cancelProv = z.cancelProv /\ r.reprioProv = z.reprioProv
  BY <1>8, ReconsiderCalm
<1> HIDE DEF r
<1>11. Calm(x, r)
  BY <1>7, <1>9, <1>10, Composes
<1>12. Known(q) => Drained(r)
  <2> SUFFICES ASSUME Known(q) PROVE Drained(r)
    OBVIOUS
  <2>1. Known(x)
    BY <1>4
  <2>2. y.reprioProv = << >>
    BY <1>7, <2>1
  <2>3. Unknown(y, y.cancelProv) = {}
    BY <1>7, <2>1 DEF Known, Unknown
  <2> QED BY <1>9, <1>10, <2>2, <2>3 DEF Drained
<1>13. /\ Settles(x, r) /\ r.reserved = x.reserved /\ r.reservationCnt = 0
       /\ Wakes(x) => Wakes(r)
  BY <1>2, <1>11 DEF Calm
<1>14. Settles(q, r)
  BY <1>4, <1>13, Composes
<1> QED BY <1>2, <1>4, <1>5, <1>12, <1>13, <1>14

-----------------------------------------------------------------------------
\* cancel_sched_loop makes a backfill loop end at its next response.
LEMMA CancelLoopCalm ==
    ASSUME NEW q, QInv(q)
    PROVE  LET r == cancel_sched_loop(q)
           IN  /\ Calm(q, r) /\ r.state = q.state /\ r.canceled = q.canceled
               /\ r.cancelProv = q.cancelProv /\ r.reprioProv = q.reprioProv
               /\ r.reconsider = q.reconsider
               /\ Policy # "fcfs" /\ q.active => r.scheduledCnt >= QueueDepth
               /\ ~q.active => r = q
<1> DEFINE r == [q EXCEPT !.scheduledCnt = QueueDepth]
<1>0. q \in QueueState
  BY DEF QInv
<1>1. CASE q.active /\ Policy # "fcfs"
  <2>1. cancel_sched_loop(q) = r
    BY <1>1 DEF cancel_sched_loop
  <2>2. /\ r.state = q.state /\ r.alloced = q.alloced /\ r.rejected = q.rejected
        /\ r.running = q.running /\ r.canceled = q.canceled /\ r.active = q.active
        /\ r.reserved = q.reserved /\ r.reservationCnt = q.reservationCnt
        /\ r.tryReserve = q.tryReserve /\ r.provisional = q.provisional
        /\ r.cancelProv = q.cancelProv /\ r.reprioProv = q.reprioProv
        /\ r.reconsider = q.reconsider /\ r.schedulable = q.schedulable
        /\ r.scheduledCnt = QueueDepth
    BY <1>0 DEF QueueState
  <2> HIDE DEF r
  <2>3. Calm(q, r)
    BY <2>2, SameCalm
  <2>4. QueueDepth >= QueueDepth
    BY BaseAssumption
  <2> QED BY <1>1, <2>1, <2>2, <2>3, <2>4
<1>2. CASE ~(q.active /\ Policy # "fcfs")
  <2>1. cancel_sched_loop(q) = q
    BY <1>2 DEF cancel_sched_loop
  <2> QED BY <1>2, <2>1, Composes
<1> QED BY <1>1, <1>2

\* reconsider_blocked_jobs is calm, and leaves nothing deferred without a loop.
LEMMA ReconsiderBlockedCalm ==
    ASSUME NEW q, QInv(q)
    PROVE  LET r == reconsider_blocked_jobs(q)
           IN  /\ Calm(q, r) /\ r.state = q.state /\ r.canceled = q.canceled
               /\ r.cancelProv = q.cancelProv /\ r.reprioProv = q.reprioProv
               /\ q.active => r.scheduledCnt = q.scheduledCnt
               /\ ~q.active => ~r.reconsider
<1> DEFINE x == [q EXCEPT !.reconsider = TRUE]
           r == reconsider_blocked_jobs(q)
<1>0. q \in QueueState
  BY DEF QInv
<1>1. x \in QueueState
  BY <1>0 DEF QueueState
<1>2. /\ x.state = q.state /\ x.alloced = q.alloced /\ x.rejected = q.rejected
      /\ x.running = q.running /\ x.canceled = q.canceled /\ x.active = q.active
      /\ x.reserved = q.reserved /\ x.reservationCnt = q.reservationCnt
      /\ x.tryReserve = q.tryReserve /\ x.provisional = q.provisional
      /\ x.cancelProv = q.cancelProv /\ x.reprioProv = q.reprioProv
      /\ x.schedulable = q.schedulable /\ x.scheduledCnt = q.scheduledCnt
      /\ x.prio = q.prio /\ x.ts = q.ts /\ x.pqCnt = q.pqCnt
      /\ x.pending = q.pending /\ x.blocked = q.blocked /\ x.iter = q.iter
      /\ x.reconsider = TRUE
  BY <1>0 DEF QueueState
<1>3. r = IF q.active THEN x ELSE process_provisional_reconsider(x)
  BY DEF reconsider_blocked_jobs
<1> DEFINE b == x.schedulable \/ x.blocked # {}
           p == x.pending \cup x.blocked
           y == [x EXCEPT !.reconsider = FALSE, !.pending = p, !.blocked = {},
                          !.schedulable = b]
<1>4. process_provisional_reconsider(x) = y
  BY <1>2 DEF process_provisional_reconsider
<1> HIDE DEF x, r, b, p
<1>5. QInv(x) /\ Calm(q, x)
  BY <1>1, <1>2, SameInv, SameCalm
<1>6. CASE q.active
  BY <1>2, <1>3, <1>5, <1>6 DEF r
<1>7. CASE ~q.active
  <2>1. y.state = x.state /\ y.canceled = x.canceled
    BY <1>1 DEF QueueState
  <2>2. /\ Calm(x, y) /\ ~y.reconsider
        /\ y.cancelProv = x.cancelProv /\ y.reprioProv = x.reprioProv
    BY <1>4, <1>5, ReconsiderCalm
  <2> HIDE DEF y
  <2>3. Calm(q, y)
    BY <1>5, <2>2, Composes
  <2>4. r = y
    BY <1>3, <1>4, <1>7
  <2> QED BY <1>2, <1>7, <2>1, <2>2, <2>3, <2>4 DEF r
<1> QED BY <1>6, <1>7

\* Keeping what Deferring speaks of keeps it.
LEMMA SameDeferring ==
    ASSUME NEW q, NEW r, Deferring(q), r.state = q.state, r.active = q.active,
           r.cancelProv = q.cancelProv, r.reprioProv = q.reprioProv,
           q.active => r.scheduledCnt = q.scheduledCnt \/ r.scheduledCnt >= QueueDepth,
           ~q.active /\ ~q.reconsider => ~r.reconsider
    PROVE  Deferring(r)
  BY DEF Deferring, Drained, Ripe

\* A resource status change.
LEMMA ResourceChangedCalm ==
    ASSUME NEW q, QInv(q)
    PROVE  LET r == resource_changed(q)
           IN  /\ Calm(q, r)
               /\ Deferring(q) => Deferring(r)
<1> DEFINE x == [q EXCEPT !.schedulable = TRUE]
           r == reconsider_blocked_jobs(x)
<1>0. q \in QueueState
  BY DEF QInv
<1>1. x \in QueueState
  BY <1>0 DEF QueueState
<1>2. /\ x.state = q.state /\ x.alloced = q.alloced /\ x.rejected = q.rejected
      /\ x.running = q.running /\ x.canceled = q.canceled /\ x.active = q.active
      /\ x.reserved = q.reserved /\ x.reservationCnt = q.reservationCnt
      /\ x.tryReserve = q.tryReserve /\ x.provisional = q.provisional
      /\ x.cancelProv = q.cancelProv /\ x.reprioProv = q.reprioProv
      /\ x.schedulable = TRUE /\ x.scheduledCnt = q.scheduledCnt
      /\ x.prio = q.prio /\ x.ts = q.ts /\ x.pqCnt = q.pqCnt
      /\ x.pending = q.pending /\ x.blocked = q.blocked /\ x.iter = q.iter
  BY <1>0 DEF QueueState
<1>3. resource_changed(q) = r
  BY DEF resource_changed
<1> HIDE DEF x
<1>4. QInv(x) /\ Calm(q, x)
  BY <1>1, <1>2, SameInv, SameCalm
<1>5. /\ Calm(x, r) /\ r.state = x.state
      /\ r.cancelProv = x.cancelProv /\ r.reprioProv = x.reprioProv
      /\ x.active => r.scheduledCnt = x.scheduledCnt
      /\ ~x.active => ~r.reconsider
  BY <1>4, ReconsiderBlockedCalm
<1> HIDE DEF r
<1>6. Calm(q, r)
  BY <1>4, <1>5, Composes
<1>7. r.active = q.active
  BY <1>6 DEF Calm
<1>8. Deferring(q) => Deferring(r)
  BY <1>2, <1>5, <1>7, SameDeferring
<1> QED BY <1>3, <1>6, <1>8

\* A cancellation, at once or deferred.
LEMMA RemovePendingCalm ==
    ASSUME NEW q, QInv(q), NEW j \in Job, q.state[j] = "PENDING"
    PROVE  LET r == remove_pending(q, j)
           IN  /\ Calm(q, r)
               /\ Policy # "fcfs" /\ Deferring(q) => Deferring(r)
<1>0. q \in QueueState
  BY DEF QInv
<1>1. CASE q.active
  <2> DEFINE c == cancel_sched_loop(q)
             l == Append(c.cancelProv, j)
             r == [c EXCEPT !.cancelProv = l]
  <2>1. QInv(c) /\ c \in QueueState
    BY CancelLoopInv DEF QInv
  <2>2. /\ Calm(q, c) /\ c.state = q.state /\ c.cancelProv = q.cancelProv
        /\ c.reprioProv = q.reprioProv /\ (Policy # "fcfs" => c.scheduledCnt >= QueueDepth)
    BY <1>1, CancelLoopCalm
  <2>3. remove_pending(q, j) = r
    BY <1>1 DEF remove_pending
  <2> HIDE DEF c
  <2>4. /\ r.state = c.state /\ r.alloced = c.alloced /\ r.rejected = c.rejected
        /\ r.running = c.running /\ r.canceled = c.canceled /\ r.active = c.active
        /\ r.reserved = c.reserved /\ r.reservationCnt = c.reservationCnt
        /\ r.tryReserve = c.tryReserve /\ r.provisional = c.provisional
        /\ r.cancelProv = l /\ r.reprioProv = c.reprioProv
        /\ r.schedulable = c.schedulable /\ r.scheduledCnt = c.scheduledCnt
    BY <2>1 DEF QueueState
  <2> HIDE DEF r
  <2>5. Calm(c, r)
    BY <2>4, SameCalm
  <2>6. Calm(q, r)
    BY <2>2, <2>5, Composes
  <2>7. r.active
    BY <1>1, <2>6 DEF Calm
  <2>8. ASSUME Policy # "fcfs", Deferring(q) PROVE Deferring(r)
    <3>1. r.scheduledCnt >= QueueDepth
      BY <2>2, <2>4, <2>8
    <3>2. \A i \in DOMAIN l : (i \in DOMAIN q.cancelProv /\ l[i] = q.cancelProv[i]) \/ l[i] = j
      <4>1. q.cancelProv \in Seq(Job)
        BY <1>0, Fields
      <4> QED BY <2>2, <4>1
    <3>3. \A i \in DOMAIN l : q.state[l[i]] = "PENDING"
      BY <1>1, <2>8, <3>2 DEF Deferring
    <3> HIDE DEF l
    <3>4. \A i \in DOMAIN r.reprioProv : r.state[r.reprioProv[i].id] = "PENDING"
      BY <1>1, <2>2, <2>4, <2>8 DEF Deferring
    <3> QED BY <2>2, <2>4, <2>7, <3>1, <3>3, <3>4 DEF Deferring, Ripe
  <2> QED BY <2>3, <2>6, <2>8
<1>2. CASE ~q.active
  <2> DEFINE e == get_key(q, j)
             x == [q EXCEPT !.pending = @ \ {e}, !.blocked = @ \ {e}, !.provisional = @ \ {e}]
             S == [q.state EXCEPT ![j] = "CANCELED"]
             r == [Leave(x, j, "CANCELED") EXCEPT !.canceled = @ \cup {j}, !.schedulable = TRUE]
  <2>1. IsQueued(q, j) /\ erase_pending_job(q, j) = x
    BY ErasePending
  <2>2. remove_pending(q, j) = r
    BY <1>2, <2>1 DEF remove_pending
  <2> HIDE DEF e
  <2>3. x \in QueueState
    BY <1>0, ZenonT(60) DEF QueueState
  <2>4. /\ x.state = q.state /\ x.alloced = q.alloced /\ x.rejected = q.rejected
        /\ x.running = q.running /\ x.canceled = q.canceled /\ x.active = q.active
        /\ x.reserved = q.reserved /\ x.reservationCnt = q.reservationCnt
        /\ x.tryReserve = q.tryReserve /\ x.cancelProv = q.cancelProv
        /\ x.reprioProv = q.reprioProv /\ x.reconsider = q.reconsider
    BY <1>0 DEF QueueState
  <2> HIDE DEF x
  <2>5. /\ r.state = [x.state EXCEPT ![j] = "CANCELED"]
        /\ r.alloced = x.alloced /\ r.rejected = x.rejected
        /\ r.running = x.running /\ r.canceled = x.canceled \cup {j} /\ r.active = x.active
        /\ r.reserved = x.reserved /\ r.reservationCnt = x.reservationCnt
        /\ r.tryReserve = x.tryReserve /\ r.cancelProv = x.cancelProv
        /\ r.reprioProv = x.reprioProv /\ r.reconsider = x.reconsider /\ r.schedulable = TRUE
    BY <2>3 DEF QueueState, Leave
  <2> HIDE DEF r
  <2>6. /\ r.state[j] = "CANCELED" /\ \A i \in Job \ {j} : r.state[i] = q.state[i]
    BY <1>0, <2>4, <2>5, Fields
  <2>7. Settles(q, r)
    BY <2>4, <2>5, <2>6 DEF Settles
  <2>8. Calm(q, r)
    BY <2>4, <2>5, <2>7 DEF Calm, Wakes
  <2>9. Deferring(q) => Deferring(r)
    BY <1>2, <2>4, <2>5 DEF Deferring, Drained
  <2> QED BY <2>2, <2>8, <2>9
<1> QED BY <1>1, <1>2

\* A new priority, at once or deferred.
LEMMA ReprioritizeCalm ==
    ASSUME NEW q, QInv(q), NEW j \in Job, NEW p \in Priority, q.state[j] = "PENDING"
    PROVE  LET r == pending_reprioritize(q, j, p)
           IN  /\ Calm(q, r)
               /\ Policy # "fcfs" /\ Deferring(q) => Deferring(r)
<1> DEFINE R == [id : Job, prio : Priority]
           l == Append(q.reprioProv, [id |-> j, prio |-> p])
           x == [q EXCEPT !.reprioProv = l]
           r == pending_reprioritize(q, j, p)
<1>0. q \in QueueState
  BY DEF QInv
<1>1. l \in Seq(R) /\ \A i \in DOMAIN l : \/ i \in DOMAIN q.reprioProv /\ l[i] = q.reprioProv[i]
                                          \/ l[i].id = j
  <2>1. q.reprioProv \in Seq(R)
    BY <1>0, Fields
  <2>2. [id |-> j, prio |-> p] \in R /\ [id |-> j, prio |-> p].id = j
    OBVIOUS
  <2> HIDE DEF R
  <2> QED BY <2>1, <2>2
<1> HIDE DEF l
<1>2. x \in QueueState
  BY <1>0, <1>1 DEF QueueState
<1>3. /\ x.state = q.state /\ x.alloced = q.alloced /\ x.rejected = q.rejected
      /\ x.running = q.running /\ x.canceled = q.canceled /\ x.active = q.active
      /\ x.reserved = q.reserved /\ x.reservationCnt = q.reservationCnt
      /\ x.tryReserve = q.tryReserve /\ x.provisional = q.provisional
      /\ x.cancelProv = q.cancelProv /\ x.reprioProv = l /\ x.reconsider = q.reconsider
      /\ x.schedulable = q.schedulable /\ x.scheduledCnt = q.scheduledCnt
      /\ x.prio = q.prio /\ x.ts = q.ts /\ x.pqCnt = q.pqCnt
      /\ x.pending = q.pending /\ x.blocked = q.blocked /\ x.iter = q.iter
  BY <1>0 DEF QueueState
<1>4. r = IF q.active THEN cancel_sched_loop(x) ELSE process_provisional_reprio(x)
  BY DEF pending_reprioritize, l
<1> HIDE DEF x, r
<1>5. QInv(x) /\ Calm(q, x)
  BY <1>2, <1>3, SameInv, SameCalm
<1>6. CASE q.active
  <2>1. /\ Calm(x, r) /\ r.state = x.state /\ r.cancelProv = x.cancelProv
        /\ r.reprioProv = x.reprioProv /\ (Policy # "fcfs" => r.scheduledCnt >= QueueDepth)
    BY <1>3, <1>4, <1>5, <1>6, CancelLoopCalm
  <2>2. Calm(q, r)
    BY <1>5, <2>1, Composes
  <2>3. r.active
    BY <1>6, <2>2 DEF Calm
  <2>4. ASSUME Policy # "fcfs", Deferring(q) PROVE Deferring(r)
    <3>1. \A i \in DOMAIN l : q.state[l[i].id] = "PENDING"
      BY <1>1, <1>6, <2>4 DEF Deferring
    <3>2. \A i \in DOMAIN r.cancelProv : r.state[r.cancelProv[i]] = "PENDING"
      BY <1>3, <1>6, <2>1, <2>4 DEF Deferring
    <3> QED BY <1>3, <2>1, <2>3, <2>4, <3>1, <3>2 DEF Deferring, Ripe
  <2> QED BY <2>2, <2>4 DEF r
<1>7. CASE ~q.active
  <2>1. /\ Calm(x, r) /\ r.state = x.state /\ r.cancelProv = x.cancelProv
        /\ ~x.reconsider => ~r.reconsider
        /\ Known(x) => r.reprioProv = << >>
    BY <1>4, <1>5, <1>7, ReprioCalm
  <2>2. Calm(q, r)
    BY <1>5, <2>1, Composes
  <2>3. ~r.active
    BY <1>7, <2>2 DEF Calm
  <2>4. ASSUME Deferring(q) PROVE Deferring(r)
    <3>1. Drained(q)
      BY <1>7, <2>4 DEF Deferring
    <3>2. \A i \in DOMAIN l : l[i].id = j
      BY <1>1, <3>1 DEF Drained
    <3>3. \A i \in DOMAIN x.cancelProv : x.state[x.cancelProv[i]] # "NONE"
      BY <1>3, <3>1 DEF Drained
    <3>4. Known(x)
      BY <1>3, <3>2, <3>3 DEF Known
    <3> QED BY <1>3, <2>1, <2>3, <3>1, <3>4 DEF Deferring, Drained
  <2> QED BY <2>2, <2>4 DEF r
<1> QED BY <1>6, <1>7

\* Deferred requests name jobs.
LEMMA DeferredJobs ==
    ASSUME NEW q \in QueueState
    PROVE  /\ \A i \in DOMAIN q.cancelProv : q.cancelProv[i] \in Job
           /\ \A i \in DOMAIN q.reprioProv : q.reprioProv[i].id \in Job
<1> DEFINE R == [id : Job, prio : Priority]
<1>1. q.cancelProv \in Seq(Job) /\ q.reprioProv \in Seq(R)
  BY Fields
<1>2. \A x \in R : x.id \in Job
  OBVIOUS
<1> HIDE DEF R
<1>3. \A i \in DOMAIN q.reprioProv : q.reprioProv[i] \in R
  BY <1>1
<1> QED BY <1>1, <1>2, <1>3

\* A new job is pending; nothing else changes hands.
LEMMA InsertEffect ==
    ASSUME NEW q, QInv(q), NEW j \in Job, NEW p, q.state[j] = "NONE"
    PROVE  LET r == insert(q, j, p)
           IN  /\ r.state = [q.state EXCEPT ![j] = "PENDING"]
               /\ r.alloced = q.alloced /\ r.rejected = q.rejected
               /\ r.canceled = q.canceled /\ r.running = q.running
               /\ r.reserved = q.reserved /\ r.active = q.active
               /\ r.reservationCnt = q.reservationCnt /\ r.tryReserve = q.tryReserve
               /\ Wakes(r)
               /\ Deferring(q) => Deferring(r)
<1> DEFINE e == [prio |-> p, ts |-> q.pqCnt, id |-> j]
           S == [q.state EXCEPT ![j] = "PENDING"]
           P == [q.prio EXCEPT ![j] = p]
           T == [q.ts EXCEPT ![j] = q.pqCnt]
           V == Emplace(q.provisional, e)
           r == insert(q, j, p)
<1>0. q \in QueueState
  BY DEF QInv
<1>1. r = [q EXCEPT !.state = S, !.prio = P, !.ts = T, !.pqCnt = @ + 1,
                    !.provisional = V, !.schedulable = TRUE]
  BY DEF insert
<1>2. /\ \A i \in Job : q.state[i] = "PENDING" => S[i] = "PENDING"
      /\ \A i \in Job : S[i] = IF i = j THEN "PENDING" ELSE q.state[i]
  BY <1>0, Fields
<1> HIDE DEF S, P, T, V, r
<1>3. /\ r.state = S /\ r.alloced = q.alloced /\ r.rejected = q.rejected
      /\ r.running = q.running /\ r.canceled = q.canceled /\ r.active = q.active
      /\ r.reserved = q.reserved /\ r.reservationCnt = q.reservationCnt
      /\ r.tryReserve = q.tryReserve
      /\ r.cancelProv = q.cancelProv /\ r.reprioProv = q.reprioProv
      /\ r.reconsider = q.reconsider /\ r.schedulable = TRUE
      /\ r.scheduledCnt = q.scheduledCnt
  BY <1>0, <1>1 DEF QueueState
<1>4. Wakes(r)
  BY <1>3 DEF Wakes
<1>5. ASSUME Deferring(q) PROVE Deferring(r)
  <2>1. /\ \A i \in DOMAIN q.cancelProv : q.cancelProv[i] \in Job
        /\ \A i \in DOMAIN q.reprioProv : q.reprioProv[i].id \in Job
    BY <1>0, DeferredJobs
  <2> QED BY <1>2, <1>3, <1>5, <2>1 DEF Deferring, Drained, Ripe
<1> QED BY <1>3, <1>4, <1>5 DEF r, S

\* Releasing the allocation of a job that is not pending: the job is forgotten
\* when the allocation is gone, and kept as it is otherwise.
LEMMA RemoveEffect ==
    ASSUME NEW q, QInv(q), NEW j \in Job, q.state[j] # "PENDING",
           NEW final, NEW ok, NEW full
    PROVE  LET r == remove(q, j, final, ok, full)
               gone == q.state[j] \in {"RUNNING", "ALLOC_RUNNING"} /\ ok /\ (full \/ final)
           IN  /\ r.state = IF gone THEN [q.state EXCEPT ![j] = "NONE"] ELSE q.state
               /\ r.alloced = IF gone THEN q.alloced \ {j} ELSE q.alloced
               /\ r.running = IF gone THEN q.running \ {j} ELSE q.running
               /\ r.rejected = q.rejected /\ r.canceled = q.canceled
               /\ r.reserved = q.reserved /\ r.active = q.active
               /\ r.reservationCnt = q.reservationCnt /\ r.tryReserve = q.tryReserve
               /\ Wakes(q) => Wakes(r)
               /\ Deferring(q) => Deferring(r)
<1> DEFINE erased == [Leave(q, j, "NONE") EXCEPT !.alloced = @ \ {j}, !.running = @ \ {j}]
           gone == q.state[j] \in {"RUNNING", "ALLOC_RUNNING"} /\ ok /\ (full \/ final)
           kept == IF full \/ final THEN erased ELSE q
           x == IF q.state[j] = "PENDING" THEN remove_pending(q, j)
                ELSE IF q.state[j] \in {"RUNNING", "ALLOC_RUNNING"} /\ ok
                THEN [kept EXCEPT !.schedulable = TRUE]
                ELSE q
           c == cancel_sched_loop(x)
           r == remove(q, j, final, ok, full)
<1>0. q \in QueueState
  BY DEF QInv
<1>1. r = reconsider_blocked_jobs(c)
  BY DEF remove
<1>2. /\ QInv(x)
      /\ x.state = IF gone THEN [q.state EXCEPT ![j] = "NONE"] ELSE q.state
      /\ x.alloced = IF gone THEN q.alloced \ {j} ELSE q.alloced
      /\ x.running = IF gone THEN q.running \ {j} ELSE q.running
      /\ x.rejected = q.rejected /\ x.canceled = q.canceled
      /\ x.reserved = q.reserved /\ x.active = q.active
      /\ x.reservationCnt = q.reservationCnt /\ x.tryReserve = q.tryReserve
      /\ x.provisional = q.provisional /\ (q.schedulable => x.schedulable)
      /\ x.cancelProv = q.cancelProv /\ x.reprioProv = q.reprioProv
      /\ x.reconsider = q.reconsider /\ x.scheduledCnt = q.scheduledCnt
  <2>1. CASE gone
    <3>1. QInv(erased) /\ erased \in QueueState
      BY <2>1, ErasedInv DEF QInv
    <3>2. x = [erased EXCEPT !.schedulable = TRUE]
      BY <2>1
    <3>3. /\ erased.state = [q.state EXCEPT ![j] = "NONE"]
          /\ erased.alloced = q.alloced \ {j} /\ erased.running = q.running \ {j}
          /\ erased.rejected = q.rejected /\ erased.canceled = q.canceled
          /\ erased.reserved = q.reserved /\ erased.active = q.active
          /\ erased.reservationCnt = q.reservationCnt /\ erased.tryReserve = q.tryReserve
          /\ erased.provisional = q.provisional /\ erased.cancelProv = q.cancelProv
          /\ erased.reprioProv = q.reprioProv /\ erased.reconsider = q.reconsider
          /\ erased.scheduledCnt = q.scheduledCnt
      BY <1>0 DEF QueueState, Leave
    <3> HIDE DEF erased, x
    <3>4. x \in QueueState
      BY <3>1, <3>2 DEF QueueState
    <3>5. /\ x.state = erased.state /\ x.prio = erased.prio /\ x.ts = erased.ts
          /\ x.pqCnt = erased.pqCnt
          /\ x.pending = erased.pending /\ x.blocked = erased.blocked
          /\ x.provisional = erased.provisional /\ x.iter = erased.iter
          /\ x.active = erased.active /\ x.canceled = erased.canceled
          /\ x.alloced = erased.alloced /\ x.running = erased.running
          /\ x.rejected = erased.rejected /\ x.reserved = erased.reserved
          /\ x.reservationCnt = erased.reservationCnt /\ x.tryReserve = erased.tryReserve
          /\ x.cancelProv = erased.cancelProv /\ x.reprioProv = erased.reprioProv
          /\ x.reconsider = erased.reconsider /\ x.scheduledCnt = erased.scheduledCnt
          /\ x.schedulable = TRUE
      BY <3>1, <3>2 DEF QueueState
    <3>6. QInv(x)
      BY <3>1, <3>4, <3>5, SameInv
    <3> QED BY <2>1, <3>3, <3>5, <3>6
  <2>2. CASE ~gone
    <3>1. x = q \/ x = [q EXCEPT !.schedulable = TRUE]
      BY <2>2
    <3>2. CASE x = q
      BY <2>2, <3>2
    <3>3. CASE x = [q EXCEPT !.schedulable = TRUE]
      <4> HIDE DEF x
      <4>1. x \in QueueState
        BY <1>0, <3>3 DEF QueueState
      <4>2. /\ x.state = q.state /\ x.prio = q.prio /\ x.ts = q.ts /\ x.pqCnt = q.pqCnt
            /\ x.pending = q.pending /\ x.blocked = q.blocked
            /\ x.provisional = q.provisional /\ x.iter = q.iter
            /\ x.active = q.active /\ x.canceled = q.canceled
            /\ x.alloced = q.alloced /\ x.running = q.running
            /\ x.rejected = q.rejected /\ x.reserved = q.reserved
            /\ x.reservationCnt = q.reservationCnt /\ x.tryReserve = q.tryReserve
            /\ x.cancelProv = q.cancelProv /\ x.reprioProv = q.reprioProv
            /\ x.reconsider = q.reconsider /\ x.scheduledCnt = q.scheduledCnt
            /\ x.schedulable = TRUE
        BY <1>0, <3>3 DEF QueueState
      <4>3. QInv(x)
        BY <4>1, <4>2, SameInv
      <4> QED BY <2>2, <4>2, <4>3
    <3> QED BY <3>1, <3>2, <3>3
  <2> QED BY <2>1, <2>2
<1> HIDE DEF x
<1>3. /\ QInv(c) /\ Calm(x, c) /\ c.state = x.state /\ c.canceled = x.canceled
      /\ c.cancelProv = x.cancelProv /\ c.reprioProv = x.reprioProv
      /\ c.reconsider = x.reconsider
      /\ (c.scheduledCnt = x.scheduledCnt \/ c.scheduledCnt >= QueueDepth)
  <2>1. QInv(c) /\ Calm(x, c)
    BY <1>2, CancelLoopInv, CancelLoopCalm
  <2>2. c = x \/ (Policy # "fcfs" /\ x.active)
    BY DEF cancel_sched_loop
  <2> QED BY <1>2, <2>1, <2>2, CancelLoopCalm
<1> HIDE DEF c
<1>4. /\ Calm(c, r) /\ r.state = c.state /\ r.canceled = c.canceled
      /\ r.cancelProv = c.cancelProv /\ r.reprioProv = c.reprioProv
      /\ c.active => r.scheduledCnt = c.scheduledCnt
      /\ ~c.active => ~r.reconsider
  BY <1>1, <1>3, ReconsiderBlockedCalm
<1> HIDE DEF r
<1>5. Calm(x, r)
  BY <1>3, <1>4, Composes
<1>6. /\ r.alloced = x.alloced /\ r.rejected = x.rejected /\ r.running = x.running
      /\ r.active = x.active /\ r.reserved = x.reserved
      /\ r.reservationCnt = x.reservationCnt /\ r.tryReserve = x.tryReserve
      /\ c.active = x.active
  BY <1>3, <1>5 DEF Calm, Settles
<1>7. Wakes(q) => Wakes(r)
  BY <1>2, <1>5 DEF Calm, Wakes
<1>8. ASSUME Deferring(q) PROVE Deferring(r)
  <2>1. \A i \in Job : q.state[i] = "PENDING" => x.state[i] = "PENDING"
    BY <1>0, <1>2, Fields
  <2>2. /\ \A i \in DOMAIN q.cancelProv : q.cancelProv[i] \in Job
        /\ \A i \in DOMAIN q.reprioProv : q.reprioProv[i].id \in Job
    BY <1>0, DeferredJobs
  <2> HIDE DEF gone
  <2>3. Deferring(x)
    BY <1>2, <1>8, <2>1, <2>2 DEF Deferring, Drained, Ripe
  <2> QED BY <1>3, <1>4, <1>6, <2>3, SameDeferring
<1> HIDE DEF gone
<1> QED BY <1>2, <1>3, <1>4, <1>6, <1>7, <1>8 DEF r, gone

-----------------------------------------------------------------------------
\* What asking for the next match does: the loop goes on where it is, and asks
\* for a reservation exactly when it may still make one; or it ends.
Drives(q, n) ==
    /\ Settles(q, n.q) /\ n.q.reserved = q.reserved
    /\ Wakes(q) => Wakes(n.q)
    /\ Known(q) /\ Ripe(q) => Deferring(n.q)
    /\ n.q.active =>
          /\ n.q.pending = q.pending /\ n.q.iter = q.iter /\ n.q.iter # Nil
          /\ n.q.prio = q.prio /\ n.q.ts = q.ts
          /\ n.q.reservationCnt = q.reservationCnt
          /\ n.q.tryReserve <=> n.q.reservationCnt < ReservationDepth
          /\ n.send = << [jobs |-> <<q.iter>>, reserve |-> n.q.tryReserve] >>

\* next_match_iter drives the loop.
LEMMA NextMatchIterEffect ==
    ASSUME NEW q, QInv(q), q.active
    PROVE  Drives(q, next_match_iter(q))
<1> DEFINE n == next_match_iter(q)
           reachedDepth == q.scheduledCnt >= QueueDepth
           reachedEnd   == q.iter = Nil
           restart      == reachedDepth /\ ~reachedEnd /\ q.scheduled
           try          == q.reservationCnt < ReservationDepth
<1>0. q \in QueueState
  BY DEF QInv
<1>1. CASE reachedDepth \/ reachedEnd
  <2> DEFINE e == EndSchedLoop(q)
             r == [e EXCEPT !.schedulable = @ \/ restart]
  <2>1. QInv(e) /\ ~e.active
    BY EndInv
  <2>2. /\ Settles(q, e) /\ e.reserved = q.reserved
        /\ Wakes(q) => Wakes(e)
        /\ Known(q) => Drained(e)
    BY EndEffect
  <2>3. n = [q |-> r, send |-> << >>]
    BY <1>1 DEF next_match_iter
  <2> HIDE DEF e, restart, n
  <2>4. e \in QueueState
    BY <2>1 DEF QInv
  <2>5. /\ r.state = e.state /\ r.alloced = e.alloced /\ r.rejected = e.rejected
        /\ r.running = e.running /\ r.canceled = e.canceled /\ r.active = e.active
        /\ r.reserved = e.reserved /\ r.reservationCnt = e.reservationCnt
        /\ r.tryReserve = e.tryReserve /\ r.provisional = e.provisional
        /\ r.cancelProv = e.cancelProv /\ r.reprioProv = e.reprioProv
        /\ r.reconsider = e.reconsider /\ r.schedulable = (e.schedulable \/ restart)
    BY <2>4 DEF QueueState
  <2> HIDE DEF r
  <2>6. Calm(e, r)
    BY <2>5, SameCalm
  <2>7. Settles(q, r) /\ r.reserved = q.reserved /\ (Wakes(q) => Wakes(r))
    BY <2>2, <2>6, Composes DEF Calm
  <2>8. Known(q) => Deferring(r)
    BY <2>1, <2>2, <2>5 DEF Deferring, Drained
  <2>9. n.q = r /\ ~n.q.active
    BY <2>1, <2>3, <2>5
  <2> QED BY <2>7, <2>8, <2>9 DEF Drives, n
<1>2. CASE ~(reachedDepth \/ reachedEnd)
  <2> DEFINE r == [q EXCEPT !.tryReserve = try]
  <2>1. n = [q |-> r, send |-> << [jobs |-> <<q.iter>>, reserve |-> try] >>]
    BY <1>2 DEF next_match_iter
  <2>2. q.iter # Nil
    BY <1>2
  <2>3. /\ r.state = q.state /\ r.alloced = q.alloced /\ r.rejected = q.rejected
        /\ r.running = q.running /\ r.canceled = q.canceled /\ r.active = q.active
        /\ r.reserved = q.reserved /\ r.reservationCnt = q.reservationCnt
        /\ r.tryReserve = try /\ r.provisional = q.provisional
        /\ r.cancelProv = q.cancelProv /\ r.reprioProv = q.reprioProv
        /\ r.reconsider = q.reconsider /\ r.schedulable = q.schedulable
        /\ r.pending = q.pending /\ r.iter = q.iter /\ r.prio = q.prio /\ r.ts = q.ts
        /\ r.scheduledCnt = q.scheduledCnt
    BY <1>0 DEF QueueState
  <2>4. n.q = r /\ n.send = << [jobs |-> <<q.iter>>, reserve |-> r.tryReserve] >>
    BY <2>1, <2>3
  <2> HIDE DEF n, r
  <2>5. Settles(q, r) /\ (Wakes(q) => Wakes(r))
    BY <2>3 DEF Settles, Wakes
  <2>6. ASSUME Ripe(q) PROVE Deferring(r)
    <3>1. q.cancelProv = << >> /\ q.reprioProv = << >>
      BY <1>2, <2>6 DEF Ripe
    <3> QED BY <2>3, <3>1 DEF Deferring, Ripe
  <2> QED BY <2>2, <2>3, <2>4, <2>5, <2>6 DEF Drives, n
<1> QED BY <1>1, <1>2

-----------------------------------------------------------------------------
\* A decision about the iterator's job: the iterator moves on, other jobs keep
\* their keys, and deferred requests are not forgotten.
Moves(q, x) ==
    /\ x.active /\ x.iter = NextOf(q.pending, q.iter)
    /\ x.canceled = q.canceled /\ x.tryReserve = q.tryReserve
    /\ \A i \in Job \ {q.iter} : get_key(x, i) = get_key(q, i)
    /\ Wakes(q) => Wakes(x)
    /\ Deferring(q) => Known(x) /\ Ripe(x)

\* The job starts, is rejected, gets a reservation, or is passed over.
Starts(q, x) ==
    /\ Moves(q, x)
    /\ x.state = [q.state EXCEPT ![q.iter] = "ALLOC_RUNNING"]
    /\ x.running = q.running \cup {q.iter} /\ x.alloced = q.alloced \cup {q.iter}
    /\ x.rejected = q.rejected
    /\ x.reserved = q.reserved /\ x.reservationCnt = q.reservationCnt
    /\ x.pending = q.pending \ {get_key(q, q.iter)}

Rejects(q, x) ==
    /\ Moves(q, x)
    /\ x.state = [q.state EXCEPT ![q.iter] = "REJECTED"]
    /\ x.rejected = q.rejected \cup {q.iter}
    /\ x.running = q.running /\ x.alloced = q.alloced
    /\ x.reserved = q.reserved /\ x.reservationCnt = q.reservationCnt
    /\ x.pending = q.pending \ {get_key(q, q.iter)}

Reserves(q, x) ==
    /\ Moves(q, x)
    /\ x.state = q.state /\ x.rejected = q.rejected
    /\ x.running = q.running /\ x.alloced = q.alloced
    /\ x.reserved = q.reserved \cup {q.iter} /\ x.reservationCnt = q.reservationCnt + 1
    /\ x.pending = q.pending

Passes(q, x) ==
    /\ Moves(q, x)
    /\ x.state = q.state /\ x.rejected = q.rejected
    /\ x.running = q.running /\ x.alloced = q.alloced
    /\ x.reserved = q.reserved /\ x.reservationCnt = q.reservationCnt
    /\ \/ x.pending = q.pending \ {get_key(q, q.iter)}
       \/ x.pending = q.pending /\ ~q.tryReserve

\* Counting the decision changes nothing of this.
LEMMA CountMoves ==
    ASSUME NEW q, NEW r \in QueueState
    PROVE  LET x == [r EXCEPT !.scheduledCnt = @ + 1]
           IN  /\ Starts(q, r) => Starts(q, x)
               /\ Rejects(q, r) => Rejects(q, x)
               /\ Reserves(q, r) => Reserves(q, x)
<1> DEFINE x == [r EXCEPT !.scheduledCnt = @ + 1]
<1>1. /\ x.state = r.state /\ x.alloced = r.alloced /\ x.rejected = r.rejected
      /\ x.running = r.running /\ x.canceled = r.canceled /\ x.active = r.active
      /\ x.reserved = r.reserved /\ x.reservationCnt = r.reservationCnt
      /\ x.tryReserve = r.tryReserve /\ x.provisional = r.provisional
      /\ x.cancelProv = r.cancelProv /\ x.reprioProv = r.reprioProv
      /\ x.schedulable = r.schedulable /\ x.scheduledCnt = r.scheduledCnt + 1
      /\ x.pending = r.pending /\ x.iter = r.iter /\ x.prio = r.prio /\ x.ts = r.ts
  BY DEF QueueState
<1>2. r.scheduledCnt \in Nat
  BY Fields
<1> HIDE DEF x
<1>3. /\ \A i : get_key(x, i) = get_key(r, i)
      /\ Wakes(r) => Wakes(x)
      /\ Known(r) => Known(x)
  BY <1>1 DEF get_key, Wakes, Known
<1>4. Ripe(r) => Ripe(x)
  BY <1>1, <1>2, BaseAssumption DEF Ripe
<1>5. Moves(q, r) => Moves(q, x)
  BY <1>1, <1>3, <1>4 DEF Moves
<1>6. Starts(q, r) => Starts(q, x)
  BY <1>1, <1>5 DEF Starts
<1>7. Rejects(q, r) => Rejects(q, x)
  BY <1>1, <1>5 DEF Rejects
<1>8. Reserves(q, r) => Reserves(q, x)
  BY <1>1, <1>5 DEF Reserves
<1> QED BY <1>6, <1>7, <1>8 DEF x

\* The jobs besides the iterator's are as they were.
Elsewhere(q, x) ==
    \A i \in Job \ {q.iter} : /\ x.state[i] = q.state[i]
                              /\ x.prio[i] = q.prio[i] /\ x.ts[i] = q.ts[i]

\* What a decision has to leave alone.
LEMMA MovesIntro ==
    ASSUME NEW q, QInv(q), q.active, q.iter # Nil, NEW x,
           x.active = q.active, x.iter = NextOf(q.pending, q.iter),
           x.canceled = q.canceled, x.tryReserve = q.tryReserve,
           x.provisional = q.provisional, x.schedulable = q.schedulable,
           x.cancelProv = q.cancelProv, x.reprioProv = q.reprioProv,
           x.scheduledCnt \in {q.scheduledCnt, q.scheduledCnt + 1},
           Elsewhere(q, x), x.state[q.iter] # "NONE"
    PROVE  Moves(q, x)
<1>1. q \in QueueState /\ q.scheduledCnt \in Nat
  BY Fields DEF QInv
<1>2. \A i \in Job \ {q.iter} : get_key(x, i) = get_key(q, i)
  BY DEF get_key, Elsewhere
<1>3. ASSUME Deferring(q) PROVE Known(x) /\ Ripe(x)
  <2>1. /\ \A i \in DOMAIN q.cancelProv : q.state[q.cancelProv[i]] = "PENDING"
        /\ \A i \in DOMAIN q.reprioProv : q.state[q.reprioProv[i].id] = "PENDING"
        /\ Ripe(q)
    BY <1>3 DEF Deferring
  <2>2. Ripe(x)
    BY <1>1, <2>1, BaseAssumption DEF Ripe
  <2>3. \A i \in Job : q.state[i] = "PENDING" => x.state[i] # "NONE"
    BY DEF Elsewhere
  <2>4. Known(x)
    BY <1>1, <2>1, <2>3, DeferredJobs DEF Known
  <2> QED BY <2>2, <2>4
<1> QED BY <1>2, <1>3 DEF Moves, Wakes

\* to_running starts the iterator's job.
LEMMA ToRunningEffect ==
    ASSUME NEW q, QInv(q), q.active, q.iter # Nil
    PROVE  Starts(q, to_running(q, q.iter))
<1> DEFINE j == q.iter
           n == NextOf(q.pending, j)
           S == [q.state EXCEPT ![j] = "ALLOC_RUNNING"]
           P == [q.prio EXCEPT ![j] = 0]
           T == [q.ts EXCEPT ![j] = 0]
           D == [q.sched EXCEPT ![j] = NoSchedule]
           M == {e \in q.pending : e.id # j}
           r == to_running(q, j)
<1>0. q \in QueueState
  BY DEF QInv
<1>1. j \in Job
  BY <1>0, Fields
<1>2. /\ S[j] # "NONE"
      /\ \A i \in Job \ {j} : S[i] = q.state[i] /\ P[i] = q.prio[i] /\ T[i] = q.ts[i]
  BY <1>0, <1>1, Fields
<1>3. r = [q EXCEPT !.state = S, !.prio = P, !.ts = T, !.sched = D,
                    !.running = @ \cup {j}, !.alloced = @ \cup {j}, !.scheduled = TRUE,
                    !.iter = n, !.pending = M]
  BY DEF to_running, Leave
<1>4. r.pending = q.pending \ {get_key(q, j)}
  BY ToRunningInv
<1> HIDE DEF j, n, S, P, T, D, M, r
<1>5. /\ r.state = S /\ r.prio = P /\ r.ts = T
      /\ r.running = q.running \cup {j} /\ r.alloced = q.alloced \cup {j}
      /\ r.rejected = q.rejected /\ r.canceled = q.canceled
      /\ r.reserved = q.reserved /\ r.reservationCnt = q.reservationCnt
      /\ r.tryReserve = q.tryReserve /\ r.provisional = q.provisional
      /\ r.schedulable = q.schedulable /\ r.scheduledCnt = q.scheduledCnt
      /\ r.cancelProv = q.cancelProv /\ r.reprioProv = q.reprioProv
      /\ r.iter = n /\ r.active = q.active
  BY <1>0, <1>3 DEF QueueState
<1>6. Moves(q, r)
  <2>1. Elsewhere(q, r)
    BY <1>2, <1>5 DEF Elsewhere, j
  <2>2. r.state[q.iter] # "NONE" /\ r.iter = NextOf(q.pending, q.iter)
    BY <1>2, <1>5 DEF j, n
  <2>3. /\ r.active = q.active /\ r.canceled = q.canceled /\ r.tryReserve = q.tryReserve
        /\ r.provisional = q.provisional /\ r.schedulable = q.schedulable
        /\ r.cancelProv = q.cancelProv /\ r.reprioProv = q.reprioProv
        /\ r.scheduledCnt \in {q.scheduledCnt, q.scheduledCnt + 1}
    BY <1>5
  <2> QED BY <2>1, <2>2, <2>3, MovesIntro
<1> QED BY <1>4, <1>5, <1>6 DEF Starts, S, j, r

\* to_rejected rejects it.
LEMMA ToRejectedEffect ==
    ASSUME NEW q, QInv(q), q.active, q.iter # Nil
    PROVE  Rejects(q, to_rejected(q, q.iter))
<1> DEFINE j == q.iter
           n == NextOf(q.pending, j)
           S == [q.state EXCEPT ![j] = "REJECTED"]
           P == [q.prio EXCEPT ![j] = 0]
           T == [q.ts EXCEPT ![j] = 0]
           D == [q.sched EXCEPT ![j] = NoSchedule]
           M == {e \in q.pending : e.id # j}
           r == to_rejected(q, j)
<1>0. q \in QueueState
  BY DEF QInv
<1>1. j \in Job
  BY <1>0, Fields
<1>2. /\ S[j] # "NONE"
      /\ \A i \in Job \ {j} : S[i] = q.state[i] /\ P[i] = q.prio[i] /\ T[i] = q.ts[i]
  BY <1>0, <1>1, Fields
<1>3. r = [q EXCEPT !.state = S, !.prio = P, !.ts = T, !.sched = D,
                    !.rejected = @ \cup {j}, !.scheduled = TRUE,
                    !.iter = n, !.pending = M]
  BY DEF to_rejected, Leave
<1>4. M = q.pending \ {get_key(q, j)}
  <2>1. get_key(q, j) \in q.pending /\ get_key(q, j).id = j
    BY DEF QInv, Cursor, get_key
  <2>2. \A e \in q.pending : e.id = j <=> e = get_key(q, j)
    BY <2>1, KeysDistinct
  <2> QED BY <2>2
<1> HIDE DEF j, n, S, P, T, D, M, r
<1>5. /\ r.state = S /\ r.prio = P /\ r.ts = T
      /\ r.running = q.running /\ r.alloced = q.alloced
      /\ r.rejected = q.rejected \cup {j} /\ r.canceled = q.canceled
      /\ r.reserved = q.reserved /\ r.reservationCnt = q.reservationCnt
      /\ r.tryReserve = q.tryReserve /\ r.provisional = q.provisional
      /\ r.schedulable = q.schedulable /\ r.scheduledCnt = q.scheduledCnt
      /\ r.cancelProv = q.cancelProv /\ r.reprioProv = q.reprioProv
      /\ r.iter = n /\ r.active = q.active /\ r.pending = M
  BY <1>0, <1>3 DEF QueueState
<1>6. Moves(q, r)
  <2>1. Elsewhere(q, r)
    BY <1>2, <1>5 DEF Elsewhere, j
  <2>2. r.state[q.iter] # "NONE" /\ r.iter = NextOf(q.pending, q.iter)
    BY <1>2, <1>5 DEF j, n
  <2>3. /\ r.active = q.active /\ r.canceled = q.canceled /\ r.tryReserve = q.tryReserve
        /\ r.provisional = q.provisional /\ r.schedulable = q.schedulable
        /\ r.cancelProv = q.cancelProv /\ r.reprioProv = q.reprioProv
        /\ r.scheduledCnt \in {q.scheduledCnt, q.scheduledCnt + 1}
    BY <1>5
  <2> QED BY <2>1, <2>2, <2>3, MovesIntro
<1> QED BY <1>4, <1>5, <1>6 DEF Rejects, S, j, r

\* to_reserved counts a reservation for it.
LEMMA ToReservedEffect ==
    ASSUME NEW q, QInv(q), q.active, q.iter # Nil, NEW at
    PROVE  Reserves(q, to_reserved(q, q.iter, at))
<1> DEFINE j == q.iter
           n == NextOf(q.pending, j)
           D == [q.sched EXCEPT ![j] = [at |-> at, oldAt |-> @.at, wasReserved |-> TRUE]]
           r == to_reserved(q, j, at)
<1>0. q \in QueueState
  BY DEF QInv
<1>1. q.state[j] = "PENDING"
  <2>1. get_key(q, j) \in q.pending /\ get_key(q, j).id = j
    BY DEF QInv, Cursor, get_key
  <2> QED BY <2>1, KeysDistinct
<1>2. r = [q EXCEPT !.sched = D, !.reserved = @ \cup {j}, !.reservationCnt = @ + 1,
                    !.iter = n, !.scheduled = TRUE]
  BY DEF to_reserved
<1> HIDE DEF j, n, D, r
<1>3. /\ r.state = q.state /\ r.prio = q.prio /\ r.ts = q.ts
      /\ r.running = q.running /\ r.alloced = q.alloced
      /\ r.rejected = q.rejected /\ r.canceled = q.canceled
      /\ r.reserved = q.reserved \cup {j} /\ r.reservationCnt = q.reservationCnt + 1
      /\ r.tryReserve = q.tryReserve /\ r.provisional = q.provisional
      /\ r.schedulable = q.schedulable /\ r.scheduledCnt = q.scheduledCnt
      /\ r.cancelProv = q.cancelProv /\ r.reprioProv = q.reprioProv
      /\ r.iter = n /\ r.active = q.active /\ r.pending = q.pending
  BY <1>0, <1>2 DEF QueueState
<1>4. Moves(q, r)
  BY <1>1, <1>3, MovesIntro DEF Elsewhere, j, n
<1> QED BY <1>3, <1>4 DEF Reserves, j, r

\* A busy job is passed over: it leaves m_pending unless no reservation was tried.
LEMMA SkipBusyEffect ==
    ASSUME NEW q, QInv(q), q.active, q.iter # Nil
    PROVE  Passes(q, skip_busy(q, q.iter))
<1> DEFINE j == q.iter
           n == NextOf(q.pending, j)
           lost == q.sched[j].at # 0
           D == [q.sched EXCEPT ![j] = IF lost THEN [@ EXCEPT !.at = 0, !.wasReserved = FALSE]
                                               ELSE @]
           M == {e \in q.pending : e.id # j}
           B == q.blocked \cup {e \in q.pending : e.id = j}
           r == skip_busy(q, j)
           base(x) ==
               /\ x.state = q.state /\ x.prio = q.prio /\ x.ts = q.ts
               /\ x.running = q.running /\ x.alloced = q.alloced
               /\ x.rejected = q.rejected /\ x.canceled = q.canceled
               /\ x.reserved = q.reserved /\ x.reservationCnt = q.reservationCnt
               /\ x.tryReserve = q.tryReserve /\ x.provisional = q.provisional
               /\ x.schedulable = q.schedulable
               /\ x.scheduledCnt \in {q.scheduledCnt, q.scheduledCnt + 1}
               /\ x.cancelProv = q.cancelProv /\ x.reprioProv = q.reprioProv
               /\ x.iter = n /\ x.active = q.active
<1>0. q \in QueueState
  BY DEF QInv
<1>1. get_key(q, j) \in q.pending /\ get_key(q, j).id = j
  BY DEF QInv, Cursor, get_key
<1>2. q.state[j] = "PENDING" /\ M = q.pending \ {get_key(q, j)}
  <2>1. \A e \in q.pending : e.id = j <=> e = get_key(q, j)
    BY <1>1, KeysDistinct
  <2> QED BY <1>1, <2>1, KeysDistinct
<1>3. CASE q.tryReserve
  <2>1. r = [q EXCEPT !.sched = D, !.dirty = @ \/ lost, !.iter = n,
                      !.blocked = B, !.pending = M]
    BY <1>3 DEF skip_busy
  <2> HIDE DEF j, n, lost, D, M, B, r
  <2>2. base(r) /\ r.pending = M
    BY <1>0, <2>1 DEF QueueState
  <2>3. Moves(q, r)
    BY <1>2, <2>2, MovesIntro DEF Elsewhere, j, n
  <2> QED BY <1>2, <2>2, <2>3 DEF Passes, j, r
<1>4. CASE ~q.tryReserve
  <2>1. r = [q EXCEPT !.sched = D, !.dirty = @ \/ lost, !.iter = n,
                      !.scheduledCnt = @ + 1]
    BY <1>4 DEF skip_busy
  <2> HIDE DEF j, n, lost, D, M, B, r
  <2>2. base(r) /\ r.pending = q.pending
    BY <1>0, <2>1 DEF QueueState
  <2>3. Moves(q, r)
    BY <1>2, <2>2, MovesIntro DEF Elsewhere, j, n
  <2> QED BY <1>4, <2>2, <2>3 DEF Passes, j, r
<1> QED BY <1>3, <1>4

-----------------------------------------------------------------------------
\* A match success of a backfill loop starts or reserves the iterator's job.
LEMMA BackfillSuccessEffect ==
    ASSUME NEW q, QInv(q), q.active, q.iter # Nil, Policy # "fcfs",
           NEW status, NEW at \in Nat
    PROVE  LET n == bf_handle_match_success(q, q.iter, status, at)
           IN  \E x : /\ QInv(x) /\ Drives(x, n)
                      /\ IF status = "RESERVED" THEN Reserves(q, x) ELSE Starts(q, x)
<1> DEFINE r == IF status = "RESERVED" THEN to_reserved(q, q.iter, at)
                                       ELSE to_running(q, q.iter)
           x == [r EXCEPT !.scheduledCnt = @ + 1]
           m == next_match_iter(x)
           n == bf_handle_match_success(q, q.iter, status, at)
<1>1. n = [q |-> m.q, send |-> m.send, rc |-> TRUE]
  BY DEF bf_handle_match_success
<1>2. QInv(r) /\ r.active
  BY ToReservedInv, ToRunningInv
<1>3. IF status = "RESERVED" THEN Reserves(q, r) ELSE Starts(q, r)
  BY ToReservedEffect, ToRunningEffect
<1> HIDE DEF r
<1>4. r \in QueueState /\ r.scheduledCnt + 1 \in Nat
  BY <1>2, Fields DEF QInv
<1>5. QInv(x) /\ x.active
  BY <1>2, <1>4, CountInv
<1>6. IF status = "RESERVED" THEN Reserves(q, x) ELSE Starts(q, x)
  BY <1>3, <1>4, CountMoves
<1> HIDE DEF x
<1>7. Drives(x, m)
  BY <1>5, NextMatchIterEffect
<1> HIDE DEF m, n
<1>8. Drives(x, n)
  BY <1>1, <1>7 DEF Drives
<1> QED BY <1>5, <1>6, <1>8 DEF n

\* A match failure of a backfill loop rejects the iterator's job or passes it over.
LEMMA BackfillFailureEffect ==
    ASSUME NEW q, QInv(q), q.active, q.iter # Nil, Policy # "fcfs",
           NEW err, err # "ENODATA"
    PROVE  LET n == bf_handle_match_failure(q, err)
           IN  \E x : /\ QInv(x) /\ Drives(x, n)
                      /\ Rejects(q, x) \/ Passes(q, x)
<1> DEFINE r == to_rejected(q, q.iter)
           s == [r EXCEPT !.scheduledCnt = @ + 1]
           b == skip_busy(q, q.iter)
           n == bf_handle_match_failure(q, err)
<1>1. n = IF err = "EBUSY" THEN next_match_iter(b) ELSE next_match_iter(s)
  BY DEF bf_handle_match_failure
<1>2. QInv(b) /\ b.active /\ Passes(q, b)
  BY SkipBusyInv, SkipBusyEffect
<1>3. QInv(r) /\ r.active /\ Rejects(q, r)
  BY ToRejectedInv, ToRejectedEffect
<1> HIDE DEF r, b, n
<1>4. r \in QueueState /\ r.scheduledCnt + 1 \in Nat
  BY <1>3, Fields DEF QInv
<1>5. QInv(s) /\ s.active
  BY <1>3, <1>4, CountInv
<1>6. Rejects(q, s)
  BY <1>3, <1>4, CountMoves
<1> HIDE DEF s
<1>7. Drives(b, next_match_iter(b)) /\ Drives(s, next_match_iter(s))
  BY <1>2, <1>5, NextMatchIterEffect
<1> QED BY <1>1, <1>2, <1>5, <1>6, <1>7 DEF n

\* The beginning of a backfill loop: no job is decided yet, no reservation is held.
Opens(q, x) ==
    /\ x.active /\ x.iter = BeginOf(x.pending)
    /\ Settles(q, x)
    /\ x.reserved = {} /\ x.reservationCnt = 0
    /\ Wakes(x)
    /\ Deferring(q) => Known(x) /\ Ripe(x)

\* A backfill run_sched_loop opens a loop, or gives up when a reservation could
\* not be cancelled.
LEMMA BackfillRunEffect ==
    ASSUME NEW q, QInv(q), ~q.active, NEW ok
    PROVE  LET n == bf_run_sched_loop(q, ok)
           IN  \/ ok /\ \E x : QInv(x) /\ Opens(q, x) /\ Drives(x, n)
               \/ /\ ~ok /\ ~n.q.active /\ n.send = << >>
                  /\ Settles(q, n.q) /\ n.q.reserved = {}
                  /\ Deferring(q) => Deferring(n.q)
<1> DEFINE n == bf_run_sched_loop(q, ok)
           m == q.pending \cup q.provisional
           b == BeginOf(m)
           r == [q EXCEPT !.schedulable = FALSE, !.reserved = {}]
           x == [q EXCEPT !.schedulable = FALSE, !.reserved = {},
                          !.pending = m, !.provisional = {}, !.iter = b, !.active = TRUE,
                          !.reservationCnt = 0, !.scheduledCnt = 0]
<1>0. q \in QueueState
  BY DEF QInv
<1>1. CASE ok
  <2>1. n = next_match_iter(x)
    <3>1. /\ n = allocate_orelse_reserve_jobs(r)
          /\ r.pending = q.pending /\ r.provisional = q.provisional
      BY <1>0, <1>1 DEF bf_run_sched_loop, QueueState
    <3> QED BY <3>1 DEF allocate_orelse_reserve_jobs
  <2>2. m \in SUBSET Entry /\ b \in Job \cup {Nil}
    BY MergeBegin
  <2> HIDE DEF m, b
  <2>3. x \in QueueState
    BY <1>0, <2>2, ZenonT(60) DEF QueueState
  <2>4. /\ x.state = q.state /\ x.prio = q.prio /\ x.ts = q.ts /\ x.pqCnt = q.pqCnt
        /\ x.pending = m /\ x.blocked = q.blocked /\ x.provisional = {}
        /\ x.iter = b /\ x.active = TRUE /\ x.canceled = q.canceled
        /\ x.alloced = q.alloced /\ x.rejected = q.rejected /\ x.running = q.running
        /\ x.reserved = {} /\ x.reservationCnt = 0
        /\ x.cancelProv = q.cancelProv /\ x.reprioProv = q.reprioProv
    BY <1>0 DEF QueueState
  <2> HIDE DEF x
  <2>5. QInv(x)
    BY <2>3, <2>4, MergeInv DEF m, b
  <2>6. Deferring(q) => Known(x) /\ Ripe(x)
    BY <2>4 DEF Deferring, Drained, Known, Ripe
  <2>7. Opens(q, x)
    BY <2>4, <2>6 DEF Opens, Settles, Wakes, b
  <2>8. Drives(x, n)
    BY <2>1, <2>4, <2>5, NextMatchIterEffect
  <2> QED BY <1>1, <2>5, <2>7, <2>8 DEF n
<1>2. CASE ~ok
  <2>1. n = [q |-> r, send |-> << >>]
    BY <1>2 DEF bf_run_sched_loop
  <2>2. /\ r.state = q.state /\ r.alloced = q.alloced /\ r.rejected = q.rejected
        /\ r.running = q.running /\ r.canceled = q.canceled /\ r.active = q.active
        /\ r.reserved = {} /\ r.cancelProv = q.cancelProv
        /\ r.reprioProv = q.reprioProv /\ r.reconsider = q.reconsider
    BY <1>0 DEF QueueState
  <2>3. n.q = r /\ n.send = << >>
    BY <2>1
  <2> HIDE DEF r, n
  <2>4. Settles(q, r) /\ (Deferring(q) => Deferring(r))
    BY <2>2 DEF Settles, Deferring, Drained
  <2> QED BY <1>2, <2>2, <2>3, <2>4 DEF n
<1> QED BY <1>1, <1>2

\* The iterator skips no job: what lies before it after a decision lay before it,
\* or is the job the decision is about.
LEMMA NextPassed ==
    ASSUME NEW q, QInv(q), NEW x, QInv(x), Moves(q, x), x.iter # Nil,
           x.pending \subseteq q.pending,
           NEW e \in x.pending, Before(e, get_key(x, x.iter)), e.id # q.iter
    PROVE  Before(e, get_key(q, q.iter))
<1> DEFINE j == q.iter
           n == x.iter
           k == get_key(q, j)
           D == {f \in q.pending : \E d \in q.pending : d.id = j /\ Before(d, f)}
<1>1. n = BeginOf(D)
  BY DEF Moves, NextOf
<1>2. PICK g \in D : g.id = n /\ \A f \in D : f = g \/ Before(g, f)
  BY <1>1, BeginIn
<1>3. PICK d \in q.pending : d.id = j /\ Before(d, g)
  BY <1>2
<1>4. d = k /\ g \in q.pending
  BY <1>2, <1>3, KeysDistinct
<1>5. get_key(x, n) \in x.pending /\ get_key(x, n).id = n
  BY DEF QInv, Cursor, get_key
<1>6. get_key(x, n) = g
  BY <1>2, <1>5, KeysDistinct
<1>7. e \in Entry /\ g \in Entry /\ k \in Entry /\ e \in q.pending
  BY <1>4, Fields DEF QInv
<1>8. ~Before(k, e)
  <2> SUFFICES ASSUME Before(k, e) PROVE FALSE
    OBVIOUS
  <2>1. e \in D
    BY <1>3, <1>4, <1>7
  <2>2. e = g \/ Before(g, e)
    BY <1>2, <2>1
  <2>3. Before(e, g)
    BY <1>6
  <2> QED BY <1>7, <2>2, <2>3, Order
<1>9. ~SameKey(e, k)
  BY <1>3, <1>4, <1>7, KeysDistinct
<1> QED BY <1>7, <1>8, <1>9, Order

-----------------------------------------------------------------------------
\* In map M exactly the jobs in S are before job j.
Follows(M, j, S) ==
    \E e \in M : e.id = j /\ \A f \in M : Before(f, e) <=> f.id \in S

\* The jobs before position i of a sequence.
Upto(J, i) == {J[k] : k \in 1..(i - 1)}

\* The rank of an entry grows along the map.
LEMMA RankMonotone ==
    ASSUME NEW M, M \subseteq Entry, IsFiniteSet(M), NEW e \in M, NEW f \in M
    PROVE  /\ Rank(M, e) \in Nat
           /\ Before(e, f) => Rank(M, e) < Rank(M, f)
<1> DEFINE D(g) == {h \in M : Before(h, g)}
<1>1. \A g \in M : IsFiniteSet(D(g))
  BY FS_Subset
<1>2. Rank(M, e) = Cardinality(D(e)) /\ Rank(M, f) = Cardinality(D(f))
  BY DEF Rank
<1>3. Cardinality(D(e)) \in Nat /\ Cardinality(D(f)) \in Nat
  BY <1>1, FS_CardinalityType
<1>4. ASSUME Before(e, f) PROVE Cardinality(D(e)) < Cardinality(D(f))
  <2>1. D(e) \in SUBSET D(f)
    BY <1>4, Order
  <2>2. e \in D(f) /\ e \notin D(e)
    BY <1>4, Order
  <2>3. Cardinality(D(e)) <= Cardinality(D(f)) /\ Cardinality(D(f)) # Cardinality(D(e))
    BY <1>1, <2>1, <2>2, FS_Subset
  <2> HIDE DEF D
  <2> QED BY <1>3, <2>3
<1> QED BY <1>2, <1>3, <1>4

\* pack_jobs names the first jobs of m_pending in order, and skips none.
LEMMA PackInOrder ==
    ASSUME NEW q, NEW M, q.pending = M, M \subseteq Entry, IsFiniteSet(M),
           \A e, f \in M : (SameKey(e, f) => e = f) /\ (e.id = f.id => e = f),
           NEW i \in DOMAIN pack_jobs(q)
    PROVE  Follows(M, pack_jobs(q)[i], Upto(pack_jobs(q), i))
<1> DEFINE J == pack_jobs(q)
           n == Cardinality(WithinDepth(M))
           E(k) == CHOOSE e \in M : Rank(M, e) = k - 1
<1>1. n \in Nat /\ n <= Cardinality(M) /\ Cardinality(M) \in Nat
  <2>1. WithinDepth(M) \in SUBSET M
    BY DEF WithinDepth
  <2> QED BY <2>1, FS_Subset, FS_CardinalityType
<1>2. J = [k \in 1..n |-> E(k).id]
  BY DEF pack_jobs
<1>3. ASSUME NEW k \in 1..n PROVE E(k) \in M /\ Rank(M, E(k)) = k - 1
  <2>1. k \in 1..Cardinality(M)
    BY <1>1
  <2>2. \E e \in M : Rank(M, e) = k - 1
    BY <2>1, RankOnto
  <2> QED BY <2>2
<1> HIDE DEF J, n, E
<1>4. i \in 1..n /\ (\A k \in 1..n : J[k] = E(k).id)
  BY <1>2 DEF J
<1>5. ASSUME NEW e \in M, NEW f \in M, Rank(M, e) = Rank(M, f) PROVE e = f
  <2>1. ~Before(e, f) /\ ~Before(f, e)
    BY <1>5, RankMonotone
  <2> QED BY <2>1, Order
<1>6. ASSUME NEW f \in M PROVE Before(f, E(i)) <=> f.id \in Upto(J, i)
  <2>1. E(i) \in M /\ Rank(M, E(i)) = i - 1
    BY <1>3, <1>4
  <2>2. ASSUME Before(f, E(i)) PROVE f.id \in Upto(J, i)
    <3>1. Rank(M, f) \in Nat /\ Rank(M, f) < i - 1
      BY <2>1, <2>2, RankMonotone
    <3> DEFINE k == Rank(M, f) + 1
    <3>2. k \in 1..(i - 1) /\ k \in 1..n /\ k - 1 = Rank(M, f)
      BY <1>1, <1>4, <3>1
    <3> HIDE DEF k
    <3>3. E(k) = f
      BY <1>3, <1>5, <3>2
    <3> QED BY <1>4, <3>2, <3>3 DEF Upto
  <2>3. ASSUME f.id \in Upto(J, i) PROVE Before(f, E(i))
    <3>1. PICK k \in 1..(i - 1) : f.id = J[k]
      BY <2>3 DEF Upto
    <3>2. k \in 1..n
      BY <1>1, <1>4
    <3>3. f = E(k) /\ Rank(M, f) = k - 1
      BY <1>3, <1>4, <3>1, <3>2
    <3>4. Rank(M, f) < Rank(M, E(i))
      BY <1>1, <1>4, <2>1, <3>3
    <3>5. f # E(i) /\ ~Before(E(i), f)
      <4>1. Rank(M, f) \in Nat /\ Rank(M, E(i)) \in Nat
        BY <2>1, RankMonotone
      <4>2. Before(E(i), f) => Rank(M, E(i)) < Rank(M, f)
        BY <2>1, RankMonotone
      <4> QED BY <3>4, <4>1, <4>2
    <3> QED BY <2>1, <3>5, Order
  <2> QED BY <2>2, <2>3
<1> QED BY <1>3, <1>4, <1>6 DEF Follows, J

\* An fcfs run_sched_loop decides nothing; the request it sends names the first
\* jobs of m_pending in order.
LEMMA FcfsRunEffect ==
    ASSUME NEW q, QInv(q), ~q.active
    PROVE  LET n == fcfs_run_sched_loop(q)
           IN  /\ Settles(q, n.q) /\ n.q.reserved = q.reserved
               /\ n.q.reservationCnt = q.reservationCnt /\ Wakes(n.q)
               /\ n.q.active => \E J \in Seq(Job) :
                    /\ n.send = << [jobs |-> J, reserve |-> FALSE] >>
                    /\ \A i \in DOMAIN J : Follows(n.q.pending, J[i], Upto(J, i))
<1> DEFINE o == [q EXCEPT !.schedulable = FALSE]
           m == q.pending \cup q.provisional
           b == BeginOf(m)
           r == [o EXCEPT !.pending = m, !.provisional = {}, !.iter = b]
           big == Cardinality(m) > QueueDepth
           s == [r EXCEPT !.active = TRUE, !.limit = @ \/ big]
           n == fcfs_run_sched_loop(q)
<1>0. q \in QueueState
  BY DEF QInv
<1>1. o.pending = q.pending /\ o.provisional = q.provisional
  BY <1>0 DEF QueueState
<1>2. n = IF m = {} THEN [q |-> r, send |-> << >>]
          ELSE [q |-> s, send |-> << [jobs |-> pack_jobs(r), reserve |-> FALSE] >>]
  BY <1>1 DEF fcfs_run_sched_loop, allocate_jobs
<1>3. /\ m \subseteq Entry /\ IsFiniteSet(m)
      /\ \A e, f \in m : (SameKey(e, f) => e = f) /\ (e.id = f.id => e = f)
  <2>1. /\ m \subseteq Entry /\ IsFiniteSet(m)
        /\ \A e, f \in m : SameKey(e, f) => e = f
    BY MapFinite
  <2>2. \A e, f \in m : e.id = f.id => e = f
    BY KeysDistinct
  <2> QED BY <2>1, <2>2
<1> HIDE DEF m, b, big, n
<1>4. /\ r.state = q.state /\ r.alloced = q.alloced /\ r.rejected = q.rejected
      /\ r.running = q.running /\ r.canceled = q.canceled
      /\ r.reserved = q.reserved /\ r.reservationCnt = q.reservationCnt
      /\ r.pending = m /\ r.provisional = {} /\ r.active = q.active
  BY <1>0 DEF QueueState
<1>5. /\ s.state = q.state /\ s.alloced = q.alloced /\ s.rejected = q.rejected
      /\ s.running = q.running /\ s.canceled = q.canceled
      /\ s.reserved = q.reserved /\ s.reservationCnt = q.reservationCnt
      /\ s.pending = m /\ s.provisional = {} /\ s.active = TRUE
  BY <1>0 DEF QueueState
<1> HIDE DEF r, s
<1>6. Settles(q, r) /\ Settles(q, s) /\ Wakes(r) /\ Wakes(s)
  BY <1>4, <1>5 DEF Settles, Wakes
<1>7. CASE m = {}
  <2>1. n.q = r
    BY <1>2, <1>7
  <2> QED BY <1>4, <1>6, <2>1 DEF n
<1>8. CASE m # {}
  <2>1. n.q = s /\ n.send = << [jobs |-> pack_jobs(r), reserve |-> FALSE] >>
    BY <1>2, <1>8
  <2>2. pack_jobs(r) \in Seq(Job)
    BY <1>3, <1>4, PackJobs
  <2>3. \A i \in DOMAIN pack_jobs(r) :
            Follows(m, pack_jobs(r)[i], Upto(pack_jobs(r), i))
    BY <1>3, <1>4, PackInOrder
  <2> QED BY <1>5, <1>6, <2>1, <2>2, <2>3 DEF n
<1> QED BY <1>7, <1>8

\* The end of an fcfs stream may reject the iterator's job, and ends the loop.
LEMMA FcfsFailureEffect ==
    ASSUME NEW q, QInv(q), q.active, NEW err,
           err \notin {"EBUSY", "ENODATA"} => q.iter # Nil
    PROVE  LET r == fcfs_handle_match_failure(q, err)
           IN  \E x : /\ x = q \/ (q.iter # Nil /\ Rejects(q, x))
                      /\ Settles(x, r) /\ r.reserved = x.reserved
                      /\ r.reservationCnt = 0
                      /\ Wakes(q) => Wakes(r)
<1> DEFINE more == err = "ENODEV" \/ (err = "ENODATA" /\ q.limit)
           x == IF err \in {"EBUSY", "ENODATA"} THEN q ELSE to_rejected(q, q.iter)
           s == [x EXCEPT !.schedulable = @ \/ more, !.limit = @ /\ err # "ENODATA"]
           e == EndSchedLoop(s)
           t == [e EXCEPT !.scheduled = TRUE]
<1>1. fcfs_handle_match_failure(q, err) = t
  BY DEF fcfs_handle_match_failure
<1>2. QInv(x)
  BY ToRejectedInv
<1>3. x = q \/ (q.iter # Nil /\ Rejects(q, x))
  BY ToRejectedEffect
<1> HIDE DEF x, more
<1>4. x \in QueueState
  BY <1>2 DEF QInv
<1>5. s \in QueueState
  BY <1>4, ZenonT(60) DEF QueueState
<1>6. /\ s.state = x.state /\ s.prio = x.prio /\ s.ts = x.ts /\ s.pqCnt = x.pqCnt
      /\ s.pending = x.pending /\ s.blocked = x.blocked
      /\ s.provisional = x.provisional /\ s.iter = x.iter /\ s.active = x.active
      /\ s.canceled = x.canceled /\ s.alloced = x.alloced /\ s.rejected = x.rejected
      /\ s.running = x.running /\ s.reserved = x.reserved
      /\ s.reservationCnt = x.reservationCnt /\ s.tryReserve = x.tryReserve
      /\ s.schedulable = (x.schedulable \/ more)
  BY <1>4 DEF QueueState
<1> HIDE DEF s
<1>7. QInv(s) /\ Calm(x, s)
  BY <1>2, <1>5, <1>6, SameInv, SameCalm
<1>8. QInv(e) /\ Settles(s, e) /\ e.reserved = s.reserved /\ e.reservationCnt = 0
      /\ (Wakes(s) => Wakes(e))
  BY <1>7, EndInv, EndEffect
<1> HIDE DEF e
<1>9. e \in QueueState
  BY <1>8 DEF QInv
<1>10. /\ t.state = e.state /\ t.alloced = e.alloced /\ t.rejected = e.rejected
       /\ t.running = e.running /\ t.canceled = e.canceled /\ t.active = e.active
       /\ t.reserved = e.reserved /\ t.reservationCnt = e.reservationCnt
       /\ t.tryReserve = e.tryReserve /\ t.provisional = e.provisional
       /\ t.schedulable = e.schedulable
  BY <1>9 DEF QueueState
<1> HIDE DEF t
<1>11. Calm(e, t)
  BY <1>10, SameCalm
<1>12. Settles(x, t)
  BY <1>7, <1>8, <1>11, Composes DEF Calm
<1>13. Wakes(q) => Wakes(t)
  BY <1>3, <1>7, <1>8, <1>11 DEF Calm, Rejects, Moves
<1> QED BY <1>1, <1>3, <1>6, <1>8, <1>10, <1>12, <1>13

=============================================================================
