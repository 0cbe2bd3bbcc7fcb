--------------------------- MODULE ResourceService ---------------------------
(***************************************************************************)
(* The job tables of the resource module (sched-fluxion-resource) and the  *)
(* handlers the queue manager reaches: match_multi, cancel and             *)
(* partial-cancel.  Whether a job matches is left open here: the traverser *)
(* is modelled elsewhere.                                                  *)
(*                                                                         *)
(* rjobs[j] abstracts ctx->jobs, ctx->allocations and ctx->reservations:   *)
(*   "NONE"        in none of them                                         *)
(*   "ALLOCATED"   in jobs and in allocations                              *)
(*   "RESERVED"    in jobs and in reservations                             *)
(*   "ALLOC_ERROR" in allocations, with an errored entry in jobs           *)
(*   "ERROR"       an errored entry in jobs only                           *)
(***************************************************************************)
EXTENDS QueuePolicyBase

CONSTANT RemoveMayFail      (* the traverser may fail to remove a job        *)

ASSUME RemoveAssumption == RemoveMayFail \in BOOLEAN

VARIABLES
    rjobs,      (* the resource module's tables                              *)
    reqs,       (* match_multi requests on their way to the resource module  *)
    resps       (* responses on their way to the queue manager               *)

RJobState == {"NONE", "ALLOCATED", "RESERVED", "ALLOC_ERROR", "ERROR"}

Success == [kind : {"ok"}, job : Job, status : {"ALLOCATED", "RESERVED"}, at : Nat]
Failure == [kind : {"err"}, err : {"EBUSY", "ENODEV", "EINVAL", "ENODATA"}]

is_existent_jobid(j) == rjobs[j] # "NONE"

\* What one match of run_match may answer: the job starts now, or, when a
\* reservation was asked for, at a future time.
MatchResult(j, reserve) ==
    {[kind |-> "ok", job |-> j, status |-> "ALLOCATED", at |-> 0]} \cup
    (IF reserve
     THEN {[kind |-> "ok", job |-> j, status |-> "RESERVED", at |-> t] : t \in StartTime}
     ELSE {})

\* The jobs of a request are matched in order.  The stream ends with the error
\* of the first job that fails, or with ENODATA after the last one.
match_multi_request_cb ==
    /\ reqs # << >>
    /\ LET req == Head(reqs)
           len == Len(req.jobs)
       IN  \E n \in 0..len :
           \E oks \in [1..n -> UNION {MatchResult(req.jobs[i], req.reserve) : i \in 1..n}],
              err \in {"EBUSY", "ENODEV", "EINVAL", "ENODATA"} :
              /\ \A i \in 1..n : /\ oks[i] \in MatchResult(req.jobs[i], req.reserve)
                                 /\ ~is_existent_jobid(req.jobs[i])
              /\ (err = "ENODATA") <=> (n = len)
              /\ n < len /\ is_existent_jobid(req.jobs[n + 1]) => err = "EINVAL"
              /\ resps' = resps \o oks \o << [kind |-> "err", err |-> err] >>
              /\ rjobs' = [j \in Job |->
                            IF \E i \in 1..n : req.jobs[i] = j
                            THEN (CHOOSE s \in {oks[i] : i \in 1..n} : s.job = j).status
                            ELSE rjobs[j]]
    /\ reqs' = Tail(reqs)

\* Variant: a failed removal leaves the tables alone.
run_remove_undone(tab, j, fails, full) ==
    [tab EXCEPT ![j] = IF ~fails /\ full THEN "NONE" ELSE @]

\* The tables after run_remove of job j, when it fails and when it succeeds.
run_remove(tab, j, fails, full) ==
    [tab EXCEPT ![j] = IF fails THEN "ERROR" ELSE IF full THEN "NONE" ELSE @]

Removable(tab, j) == tab[j] \in {"ALLOCATED", "ALLOC_ERROR", "RESERVED"}

\* A full cancel: the allocation or reservation is dropped first, so that a
\* failure leaves an errored job.  A job without either is left alone (ENOENT).
cancel_request_cb(tab, j, fails) ==
    IF Removable(tab, j) THEN run_remove(tab, j, fails, TRUE) ELSE tab

\* A partial cancel keeps the allocation unless it removed the last of it.
partial_cancel_request_cb(tab, j, fails, full) ==
    IF tab[j] \notin {"ALLOCATED", "ALLOC_ERROR"} THEN tab
    ELSE IF fails THEN [tab EXCEPT ![j] = "ALLOC_ERROR"]
    ELSE run_remove(tab, j, FALSE, full)

=============================================================================
