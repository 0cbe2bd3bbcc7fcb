--------------------------- MODULE QueuePolicyFcfs ---------------------------
(***************************************************************************)
(* First come, first served: one scheduling loop sends the head of the     *)
(* pending queue to the resource module in a single streaming request and  *)
(* ends when the stream does.                                              *)
(*                                                                         *)
(* A method that may send a match request returns [q, send]: the queue and *)
(* the sequence of requests it sends.  handle_match_success returns [q, rc] *)
(* with rc FALSE when the code returns -1.                                 *)
(***************************************************************************)
EXTENDS QueuePolicyBase

\* The first m_queue_depth jobs of m_pending in order.
pack_jobs(q) ==
    [i \in 1..Cardinality(WithinDepth(q.pending)) |->
        (CHOOSE e \in q.pending : Rank(q.pending, e) = i - 1).id]

allocate_jobs(q) ==
    LET m == q.pending \cup q.provisional
        r == [q EXCEPT !.pending = m, !.provisional = {}, !.iter = BeginOf(m)]
    IN  IF m = {}
        THEN [q |-> r, send |-> << >>]
        ELSE [q    |-> [r EXCEPT !.active = TRUE,
                                 !.limit  = @ \/ Cardinality(m) > QueueDepth],
              send |-> << [jobs |-> pack_jobs(r), reserve |-> FALSE] >>]

\* Variant: the queue stops being schedulable before the active loop is noticed.
fcfs_run_sched_loop_early(q) ==
    LET r == [q EXCEPT !.schedulable = FALSE]
    IN  IF q.active THEN [q |-> r, send |-> << >>] ELSE allocate_jobs(r)

fcfs_run_sched_loop(q) ==
    IF q.active
    THEN [q |-> q, send |-> << >>]
    ELSE allocate_jobs([q EXCEPT !.schedulable = FALSE])

fcfs_handle_match_success(q, j) ==
    IF ~q.active \/ q.iter # j
    THEN [q |-> q, rc |-> FALSE]
    ELSE [q |-> to_running(q, j), rc |-> TRUE]

\* Variant: the end of the stream does not end the loop.
fcfs_handle_match_failure_open(q, err) ==
    IF ~q.active \/ err = "ENODATA"
    THEN q
    ELSE LET r == IF err = "EBUSY" THEN q ELSE to_rejected(q, q.iter)
             s == [r EXCEPT !.schedulable = @ \/ err = "ENODEV"]
         IN  [EndSchedLoop(s) EXCEPT !.scheduled = TRUE]

fcfs_handle_match_failure(q, err) ==
    IF ~q.active
    THEN q
    ELSE LET more == err = "ENODEV" \/ (err = "ENODATA" /\ q.limit)
             r == IF err \in {"EBUSY", "ENODATA"} THEN q ELSE to_rejected(q, q.iter)
             s == [r EXCEPT !.schedulable = @ \/ more,
                            !.limit = @ /\ err # "ENODATA"]
         IN  [EndSchedLoop(s) EXCEPT !.scheduled = TRUE]

=============================================================================
