-------------------------- MODULE QueuePolicyLoops --------------------------
(***************************************************************************)
(* The loops of process_provisional_reprio and process_provisional_cancel, *)
(* request by request as the code runs them, with their error returns.     *)
(* QueuePolicyBase defines both methods by what they compute; here TLC     *)
(* compares the two on every state the queue manager reaches.              *)
(***************************************************************************)
EXTENDS Qmanager

\* emplace in m_pending_provisional or in m_pending; on failure rc is FALSE.
insert_pending_job(r, j, intoProvisional) ==
    LET e == get_key(r, j)
        M == IF intoProvisional THEN r.provisional ELSE r.pending
    IN  [rc |-> ~HasKey(M, e),
         q  |-> IF intoProvisional THEN [r EXCEPT !.provisional = Emplace(@, e)]
                                   ELSE [r EXCEPT !.pending = Emplace(@, e)]]

RECURSIVE ReprioFrom(_, _)

\* The requests i, i + 1, ... of m_pending_reprio_provisional.
ReprioFrom(r, i) ==
    IF i > Len(r.reprioProv)
    THEN [r EXCEPT !.reprioProv = << >>]
    ELSE LET j == r.reprioProv[i].id
             inProvisional == ~HasKey(r.pending \cup r.blocked, get_key(r, j))
             new == insert_pending_job(
                        [erase_pending_job(r, j) EXCEPT !.prio[j] = r.reprioProv[i].prio],
                        j, inProvisional)
         IN  IF r.state[j] = "NONE" THEN r
             ELSE IF r.state[j] # "PENDING" THEN ReprioFrom(r, i + 1)
             ELSE IF ~IsQueued(r, j) THEN r
             ELSE IF ~new.rc THEN new.q
             ELSE ReprioFrom(reconsider_blocked_jobs(
                                [new.q EXCEPT !.schedulable = TRUE]), i + 1)

RECURSIVE CancelFrom(_, _)

\* The requests i, i + 1, ... of m_pending_cancel_provisional.
CancelFrom(r, i) ==
    IF i > Len(r.cancelProv)
    THEN [r EXCEPT !.cancelProv = << >>]
    ELSE LET j == r.cancelProv[i]
         IN  IF r.state[j] = "NONE" THEN r
             ELSE IF r.state[j] # "PENDING" THEN CancelFrom(r, i + 1)
             ELSE IF ~IsQueued(r, j) THEN r
             ELSE CancelFrom([Leave(erase_pending_job(r, j), j, "CANCELED") EXCEPT
                                !.canceled = @ \cup {j}, !.schedulable = TRUE], i + 1)

\* Wherever the queue stands, were the active loop to end now, handling the
\* deferred requests one at a time and in order would leave exactly the queue
\* that process_provisional_reprio and process_provisional_cancel are defined
\* to leave: requests that repeat a job, that come too late or that name a job
\* long gone included.
LoopsAgree ==
    LET r == [q EXCEPT !.active = FALSE]
        s == ReprioFrom(r, 1)
    IN  /\ s = process_provisional_reprio(r)
        /\ CancelFrom(s, 1) = process_provisional_cancel(s)

=============================================================================
