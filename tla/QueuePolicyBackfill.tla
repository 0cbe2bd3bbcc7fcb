------------------------- MODULE QueuePolicyBackfill -------------------------
(***************************************************************************)
(* The backfill policies (easy, hybrid, conservative): one scheduling loop *)
(* walks the pending queue one match request at a time, reserving the      *)
(* first ReservationDepth jobs that cannot start now and starting later    *)
(* jobs past them.  The policies differ in ReservationDepth only.          *)
(***************************************************************************)
EXTENDS QueuePolicyBase

\* Variant: one reservation too many.
next_match_iter_onemore(q) ==
    LET reachedDepth == q.scheduledCnt >= QueueDepth
        reachedEnd   == q.iter = Nil
        restart      == reachedDepth /\ ~reachedEnd /\ q.scheduled
        try          == q.reservationCnt <= ReservationDepth
    IN  IF reachedDepth \/ reachedEnd
        THEN [q    |-> [EndSchedLoop(q) EXCEPT !.schedulable = @ \/ restart],
              send |-> << >>]
        ELSE [q    |-> [q EXCEPT !.tryReserve = try],
              send |-> << [jobs |-> <<q.iter>>, reserve |-> try] >>]

next_match_iter(q) ==
    LET reachedDepth == q.scheduledCnt >= QueueDepth
        reachedEnd   == q.iter = Nil
        restart      == reachedDepth /\ ~reachedEnd /\ q.scheduled
        try          == q.reservationCnt < ReservationDepth
    IN  IF reachedDepth \/ reachedEnd
        THEN [q    |-> [EndSchedLoop(q) EXCEPT !.schedulable = @ \/ restart],
              send |-> << >>]
        ELSE [q    |-> [q EXCEPT !.tryReserve = try],
              send |-> << [jobs |-> <<q.iter>>, reserve |-> try] >>]

allocate_orelse_reserve_jobs(q) ==
    LET m == q.pending \cup q.provisional
    IN  next_match_iter([q EXCEPT !.pending = m, !.provisional = {},
                                  !.iter = BeginOf(m), !.active = TRUE,
                                  !.reservationCnt = 0, !.scheduledCnt = 0])

\* Variant: the queue stops being schedulable before the active loop is noticed.
bf_run_sched_loop_early(q, ok) ==
    LET r == [q EXCEPT !.schedulable = FALSE]
    IN  IF q.active THEN [q |-> r, send |-> << >>]
        ELSE IF ~ok THEN [q |-> [r EXCEPT !.reserved = {}], send |-> << >>]
        ELSE allocate_orelse_reserve_jobs([r EXCEPT !.reserved = {}])

\* ok: every reservation of the last loop was cancelled in the resource module.
bf_run_sched_loop(q, ok) ==
    LET r == [q EXCEPT !.schedulable = FALSE, !.reserved = {}]
    IN  IF q.active THEN [q |-> q, send |-> << >>]
        ELSE IF ~ok THEN [q |-> r, send |-> << >>]
        ELSE allocate_orelse_reserve_jobs(r)

\* The iterator's job holds a reservation for the future time at.
to_reserved(q, j, at) ==
    [q EXCEPT !.sched[j] = [at |-> at, oldAt |-> @.at, wasReserved |-> TRUE],
              !.reserved = @ \cup {j},
              !.reservationCnt = @ + 1,
              !.iter = NextOf(q.pending, j),
              !.scheduled = TRUE]

bf_handle_match_success(q, j, status, at) ==
    IF ~q.active \/ q.iter # j
    THEN [q |-> q, send |-> << >>, rc |-> FALSE]
    ELSE LET r == IF status = "RESERVED" THEN to_reserved(q, j, at)
                                         ELSE to_running(q, j)
             n == next_match_iter([r EXCEPT !.scheduledCnt = @ + 1])
         IN  [q |-> n.q, send |-> n.send, rc |-> TRUE]

\* Variant: a job that cannot be reserved is passed over and stays pending.
skip_busy_passed_over(q, j) ==
    [q EXCEPT !.iter = NextOf(q.pending, j), !.scheduledCnt = @ + 1]

\* EBUSY: the job lost its estimate, if it had one.  When not even a reservation
\* was possible it is set aside until resources change, and does not count
\* towards the queue depth.
skip_busy(q, j) ==
    LET lost == q.sched[j].at # 0
        r == [q EXCEPT
                !.sched[j] = IF lost THEN [@ EXCEPT !.at = 0, !.wasReserved = FALSE]
                                     ELSE @,
                !.dirty = @ \/ lost,
                !.iter = NextOf(q.pending, j)]
    IN  IF q.tryReserve
        THEN [r EXCEPT !.blocked = @ \cup {e \in q.pending : e.id = j},
                       !.pending = {e \in @ : e.id # j}]
        ELSE [r EXCEPT !.scheduledCnt = @ + 1]

\* Variant: the chain of match requests breaks at a busy job.
bf_handle_match_failure_stop(q, err) ==
    IF ~q.active \/ err = "ENODATA"
    THEN [q |-> q, send |-> << >>]
    ELSE IF err = "EBUSY"
    THEN [q |-> skip_busy(q, q.iter), send |-> << >>]
    ELSE next_match_iter([to_rejected(q, q.iter) EXCEPT !.scheduledCnt = @ + 1])

bf_handle_match_failure(q, err) ==
    IF ~q.active \/ err = "ENODATA"
    THEN [q |-> q, send |-> << >>]
    ELSE IF err = "EBUSY"
    THEN next_match_iter(skip_busy(q, q.iter))
    ELSE next_match_iter([to_rejected(q, q.iter) EXCEPT !.scheduledCnt = @ + 1])

=============================================================================
