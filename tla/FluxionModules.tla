--------------------------- MODULE FluxionModules ---------------------------
(***************************************************************************)
(* The three Fluxion modules of a Flux instance, loaded and unloaded while  *)
(* jobs run: sched-fluxion-resource (rm) acquires resources from core and   *)
(* forwards what changes; sched-fluxion-feasibility (fz) and                *)
(* sched-fluxion-qmanager (qm) subscribe to it.  Messages between two       *)
(* modules arrive in the order they were sent.                              *)
(*                                                                         *)
(* External: core's resource module (core), the job manager and its hello   *)
(* protocol (jm), and who loads modules and edits the graph.  The queues    *)
(* are first-come-first-served here, without cancellation and priorities:   *)
(* the module Qmanager has those, and the backfill policies.                *)
(***************************************************************************)
EXTENDS ResourceMatch

CONSTANTS
    QueueOf,        (* the queue a job names, or "default"                   *)
    Scenarios       (* how the modules are configured and what happens       *)

ASSUME ScenarioAssumption ==
    \A s \in Scenarios : /\ s.core \in [ranks : SUBSET Rank, up : SUBSET Rank, exp : Nat]
                         /\ s.core.up \subseteq s.core.ranks
                         /\ s.expirations \subseteq Nat
                         /\ \A c \in s.qms : IsFiniteSet(DOMAIN qmanager_options(c.conf, c.args).queues)

VARIABLES
    sc,             (* the scenario                                          *)
    left,           (* how many outside events may still happen              *)
    core,           (* core's [ranks, up, exp]                               *)
    acq,            (* responses of resource.acquire on their way            *)
    rm,             (* the context of the resource module, or Off            *)
    fz,             (* the context of the feasibility module, or Off         *)
    qm,             (* the queue manager, or Off                             *)
    jm,             (* what the job manager knows of each job                *)
    reqs,           (* requests on their way to rm                           *)
    toQm, toFz,     (* responses on their way to qm and to fz                *)
    edited,         (* what an administrator has changed since rm was loaded *)
    silent          (* something may let a job start, and its queue has not  *)
                    (* been told: an edit, or an error that ended its loop   *)

\* A module that is not loaded.
Off == [loaded |-> FALSE]

vars == <<sc, left, core, acq, rm, fz, qm, jm, reqs, toQm, toFz, edited, silent>>

\* An outside event, while there are some left.
Happens(kind) ==
    /\ left > 0 /\ kind \in sc.events
    /\ left' = left - 1

Nothing == [res |-> NoR, up |-> {}, down |-> {}, lost |-> {}, exp |-> -1]

\* A payload, an empty response and the end of a stream with an error.
Payload(m) == [k |-> "payload", m |-> m]

EmptyResponse == [k |-> "empty", m |-> Nothing]

StreamError == [k |-> "error", m |-> Nothing]

\* The queue manager does not read payloads.
Notified == EmptyResponse

Respond(subs, msg) ==
    /\ toQm' = IF "qm" \in subs THEN Append(toQm, IF msg = StreamError THEN msg ELSE Notified)
               ELSE toQm
    /\ toFz' = IF "fz" \in subs THEN Append(toFz, msg) ELSE toFz

-----------------------------------------------------------------------------
(* Core: its resource module keeps resources and tells the scheduler.      *)

Acquired == [Nothing EXCEPT !.res = [ranks |-> core.ranks, start |-> 0, end |-> core.exp,
                                     writer |-> "none", key |-> {}, free |-> {}],
                            !.up = core.up]

Tell(c, m) ==
    /\ core' = c
    /\ acq' = IF rm # Off /\ ~IsSet(rm.opts, "load-file") THEN Append(acq, m) ELSE acq
    /\ UNCHANGED <<sc, rm, fz, qm, jm, reqs, toQm, toFz, edited, silent>>

CoreUp(r) ==
    /\ Happens("up") /\ r \in core.ranks \ core.up
    /\ Tell([core EXCEPT !.up = @ \cup {r}], [Nothing EXCEPT !.up = {r}])

CoreDown(r) ==
    /\ Happens("down") /\ r \in core.up
    /\ Tell([core EXCEPT !.up = @ \ {r}], [Nothing EXCEPT !.down = {r}])

CoreLost(r) ==
    /\ Happens("lost") /\ r \in core.ranks
    /\ Tell([core EXCEPT !.ranks = @ \ {r}, !.up = @ \ {r}],
            [Nothing EXCEPT !.down = {r}, !.lost = {r}])

CoreExpiration(e) ==
    /\ Happens("expiration") /\ e # core.exp
    /\ Tell([core EXCEPT !.exp = e], [Nothing EXCEPT !.exp = e])

-----------------------------------------------------------------------------
(* sched-fluxion-resource                                                  *)

\* What is up is marked only when resources come from core.
init_resource_graph(ctx, m) ==
    LET p == populate_resource_db(ctx, m)
        i == Then(p, TRUE, InitTraverser)
        d == Then(i, ~IsSet(ctx.opts, "load-file"), LAMBDA c : mark(c, c.ranks, FALSE))
    IN  Then(d, d.ctx.ups # {}, LAMBDA c : mark(c, c.ups, TRUE))

\* The module is loaded before those that need it.  It is gone again when its
\* options or its graph are refused.
load_resource(c) ==
    /\ rm = Off /\ fz = Off /\ qm = Off
    /\ Happens("load")
    /\ \E o \in {resource_options(resource_set_default_args, c.table, c.args)} :
       \E i \in {init_resource_graph(resource_ctx_t(o.opts, TRUE), Acquired)} :
          rm' = IF o.ok /\ i.ok THEN i.ctx ELSE Off
    /\ acq' = << >> /\ reqs' = << >> /\ toQm' = << >> /\ toFz' = << >>
    /\ edited' = {} /\ silent' = FALSE
    /\ UNCHANGED <<sc, core, fz, qm, jm>>

\* Subscribers learn that their stream is over; requests find nobody.
unload_resource ==
    /\ rm # Off
    /\ Happens("unload")
    /\ rm' = Off /\ acq' = << >> /\ reqs' = << >>
    /\ toQm' = IF qm = Off THEN toQm ELSE Append(toQm, StreamError)
    /\ toFz' = IF fz = Off THEN toFz ELSE Append(toFz, StreamError)
    /\ UNCHANGED <<sc, core, fz, qm, jm, edited, silent>>

\* A response of resource.acquire: what is taken over is sent on as it came.
update_resource_then ==
    /\ rm # Off /\ acq # << >>
    /\ \E u \in {update_resource(rm, Head(acq))} :
          /\ rm' = u.ctx
          /\ Respond(IF u.ok THEN rm.notify_msgs ELSE {}, Payload(Head(acq)))
    /\ acq' = Tail(acq)
    /\ UNCHANGED <<sc, left, core, fz, qm, jm, reqs, edited, silent>>

\* The stream starts with the resources as they were acquired, and goes on with the
\* status of the graph and with what was lost and extended since.
notify_request_cb ==
    LET who == Head(reqs).who
        old == [Nothing EXCEPT !.res = rm.notify_resources]
        now == [Nothing EXCEPT !.up = rm.up, !.down = rm.ranks \ rm.up,
                               !.lost = rm.notify_lost, !.exp = rm.notify_expiration]
        out == IF IsSet(rm.opts, "load-file") THEN <<StreamError>>
               ELSE <<Payload(old), Payload(now)>>
    IN  /\ rm # Off /\ reqs # << >> /\ Head(reqs).k = "notify"
        /\ rm' = IF IsSet(rm.opts, "load-file") THEN rm
                 ELSE [rm EXCEPT !.notify_msgs = @ \cup {who}]
        /\ reqs' = Tail(reqs)
        /\ toFz' = IF who = "fz" THEN toFz \o out ELSE toFz
        /\ toQm' = IF who = "qm" THEN toQm \o [i \in DOMAIN out |-> IF out[i] = StreamError
                                                                   THEN StreamError ELSE Notified]
                   ELSE toQm
        /\ UNCHANGED <<sc, left, core, acq, fz, qm, jm, edited, silent>>

\* What a module that leaves had asked for is forgotten.
disconnect_request_cb(who) ==
    IF rm = Off THEN Off ELSE [rm EXCEPT !.notify_msgs = @ \ {who}]

\* One more job, after those in acc; the first that does not match ends it.
match_one(acc, j) ==
    LET m == run_match(acc.ctx, j, "allocate_with_satisfiability")
    IN  IF acc.over THEN acc
        ELSE IF is_existent_jobid(acc.ctx, j)
        THEN [acc EXCEPT !.over = TRUE, !.out = Append(@, [j |-> j, err |-> "EINVAL", R |-> NoR])]
        ELSE IF m.err # ""
        THEN [over |-> TRUE, out |-> Append(acc.out, [j |-> j, err |-> m.err, R |-> NoR]),
              ctx |-> IF m.err = "EBUSY" THEN Forget(m.ctx, j) ELSE m.ctx]
        ELSE [over |-> FALSE, out |-> Append(acc.out, [j |-> j, err |-> "", R |-> m.R]),
              ctx |-> m.ctx]

\* One job after the other, up to the first that does not match.
match_multi(ctx, jobs) ==
    LET r == FoldLeft(match_one, [ctx |-> ctx, out |-> << >>, over |-> FALSE], jobs)
    IN  [ctx |-> r.ctx,
         out |-> IF r.over THEN r.out ELSE Append(r.out, [j |-> Nobody, err |-> "ENODATA", R |-> NoR])]

\* A queue manager that is gone gets no answer, but its jobs are matched.
match_multi_request_cb ==
    LET req == Head(reqs)
    IN  /\ rm # Off /\ reqs # << >> /\ req.k = "match"
        /\ \E r \in {match_multi(rm, req.jobs)} :
              /\ rm' = r.ctx
              /\ toQm' = IF ~req.alive THEN toQm
                         ELSE toQm \o [i \in DOMAIN r.out |->
                                          [k |-> "match", queue |-> req.queue, m |-> r.out[i]]]
        /\ reqs' = Tail(reqs)
        /\ UNCHANGED <<sc, left, core, acq, fz, qm, jm, toFz, edited, silent>>

\* Variant: a job that is known is refused.
update_request_cb_refusing(ctx, j, R) ==
    IF is_existent_jobid(ctx, j) THEN Error(ctx) ELSE run_update(ctx, j, R)

\* A job that is known with the same R_lite stays as it is.
update_request_cb(ctx, j, R) ==
    IF is_existent_jobid(ctx, j)
    THEN (IF Rlite_equal(R, ctx.jobs[j].R) THEN Done(ctx) ELSE Error(ctx))
    ELSE run_update(ctx, j, R)

NoEntry(ctx) == [ok |-> FALSE, ctx |-> ctx, full |-> FALSE, errno |-> "ENOENT"]

\* The job leaves the table of allocations before it is removed.
cancel_request_cb(ctx, j) ==
    IF j \notin ctx.allocations THEN NoEntry(ctx)
    ELSE run_remove([ctx EXCEPT !.allocations = @ \ {j}], j, {}, FALSE)

partial_cancel_request_cb(ctx, j, ranks) ==
    LET r == run_remove(ctx, j, ranks, TRUE)
    IN  IF j \notin ctx.allocations THEN NoEntry(ctx)
        ELSE IF r.full THEN [r EXCEPT !.ctx.allocations = @ \ {j}] ELSE r

(***************************************************************************)
(* The same as the queue manager calls them: it waits for the answer, which *)
(* is an error when nobody serves.                                          *)
(***************************************************************************)
reapi_update_allocate(ctx, j, R) == IF ctx = Off THEN Error(ctx) ELSE update_request_cb(ctx, j, R)

\* A job that is not known (noent_ok) is no error.
NoEntOk(r) == [ok |-> r.ok \/ r = NoEntry(r.ctx), ctx |-> r.ctx, full |-> r.full]

reapi_cancel(ctx, j) ==
    IF ctx = Off THEN [ok |-> FALSE, ctx |-> ctx, full |-> FALSE]
    ELSE NoEntOk(cancel_request_cb(ctx, j))

reapi_cancel_R(ctx, j, ranks) ==
    IF ctx = Off THEN [ok |-> FALSE, ctx |-> ctx, full |-> FALSE]
    ELSE NoEntOk(partial_cancel_request_cb(ctx, j, ranks))

\* What a status request would answer, and what it keeps for the next.
StatusAll(ctx) == IF ctx.updated THEN run_find(ctx, "status=up or status=down") ELSE ctx.r_all

StatusDown(ctx) == IF ctx.down_updated THEN run_find(ctx, "status=down") ELSE ctx.r_down

\* Allocations are searched again when the interval has passed.
status_request_cb ==
    /\ rm # Off /\ Happens("status")
    /\ \E elapsed \in (IF get_update_interval(rm.opts) = 0 THEN {TRUE} ELSE BOOLEAN) :
        rm' = [rm EXCEPT !.r_alloc = IF elapsed \/ rm.updated
                                     THEN run_find(rm, "sched-now=allocated") ELSE @,
                         !.r_all = StatusAll(rm), !.updated = FALSE,
                         !.r_down = StatusDown(rm), !.down_updated = FALSE]
    /\ UNCHANGED <<sc, core, acq, fz, qm, jm, reqs, toQm, toFz, edited, silent>>

-----------------------------------------------------------------------------
(* An administrator edits the graph.                                       *)

Edit(kind, ctx, what, unheard) ==
    /\ Happens(kind)
    /\ rm' = ctx
    /\ edited' = edited \cup {what}
    /\ silent' = (silent \/ unheard)
    /\ UNCHANGED <<sc, core, acq, fz, qm, jm, reqs>>

\* Variant: nobody reconsiders the jobs that wait.
set_status_request_cb_quiet(r, up) ==
    /\ rm # Off /\ r \in rm.ranks
    /\ Edit("set-status", mark_now(rm, {r}, up), "status", FALSE)
    /\ UNCHANGED <<toQm, toFz>>

\* An empty response makes the subscribers look at their jobs again.
set_status_request_cb(r, up) ==
    /\ rm # Off /\ r \in rm.ranks
    /\ Edit("set-status", mark_now(rm, {r}, up), "status", FALSE)
    /\ Respond(IF up THEN rm.notify_msgs ELSE {}, EmptyResponse)

set_property_request_cb(r) ==
    /\ rm # Off /\ r \in rm.ranks
    /\ Edit("property", [rm EXCEPT !.props = @ \cup {r}], "props", TRUE)
    /\ UNCHANGED <<toQm, toFz>>

remove_property_request_cb(r) ==
    /\ rm # Off /\ r \in rm.ranks
    /\ Edit("property", [rm EXCEPT !.props = @ \ {r}], "props", FALSE)
    /\ UNCHANGED <<toQm, toFz>>

add_subgraph_request_cb(r) ==
    /\ rm # Off /\ r \notin rm.ranks
    /\ Edit("subgraph", run_add_subgraph(rm, r).ctx, "graph", TRUE)
    /\ UNCHANGED <<toQm, toFz>>

\* Only of nodes no job holds.
remove_subgraph_request_cb(r) ==
    /\ rm # Off /\ r \in rm.ranks /\ rm.booked[r] = Nobody
    /\ Edit("subgraph", run_remove_subgraph(rm, r).ctx, "graph", FALSE)
    /\ UNCHANGED <<toQm, toFz>>

-----------------------------------------------------------------------------
(* sched-fluxion-feasibility                                               *)

\* With a file of its own the module subscribes to nothing.
load_feasibility(c) ==
    \E o \in {resource_options(feasibility_set_default_args, c.table, c.args)} :
    LET ctx == resource_ctx_t(o.opts, FALSE)
        file == IsSet(o.opts, "load-file")
    IN  /\ rm # Off /\ fz = Off
        /\ Happens("load")
        /\ fz' = IF ~o.ok THEN Off
                 ELSE IF file THEN Then(populate_resource_db_file(ctx), TRUE, InitTraverser).ctx
                 ELSE ctx
        /\ reqs' = IF o.ok /\ ~file THEN Append(reqs, [k |-> "notify", who |-> "fz"]) ELSE reqs
        /\ UNCHANGED <<sc, core, acq, rm, qm, jm, toQm, toFz, edited, silent>>

LeaveFz ==
    /\ fz' = Off /\ toFz' = << >>
    /\ rm' = disconnect_request_cb("fz")
    /\ UNCHANGED <<sc, core, acq, qm, jm, reqs, toQm, edited, silent>>

unload_feasibility ==
    /\ fz # Off /\ fz.initialized
    /\ Happens("unload")
    /\ LeaveFz

\* The first response makes the graph, later ones change it; an error ends the
\* module, and so does a graph that cannot be made.
feasibility_notified ==
    LET msg == Head(toFz)
        next == IF ~fz.initialized THEN Then(populate_resource_db(fz, msg.m), TRUE, InitTraverser)
                ELSE IF msg = EmptyResponse THEN Done(fz) ELSE update_resource(fz, msg.m)
    IN  /\ fz # Off /\ toFz # << >> /\ UNCHANGED left
        /\ \E u \in {IF msg = StreamError THEN Error(fz) ELSE next} :
              IF msg = StreamError \/ (~fz.initialized /\ ~u.ok) THEN LeaveFz
              ELSE /\ fz' = u.ctx
                   /\ toFz' = Tail(toFz)
                   /\ UNCHANGED <<sc, core, acq, rm, qm, jm, reqs, toQm, edited, silent>>

\* Whether a job could run on the whole machine.
feasibility_request_cb(j) == run_match(fz, j, "satisfiability").err = ""

\* A job is asked about when it is submitted, if there is somebody to ask.
Submit(j) ==
    /\ j \in sc.jobs /\ jm[j].st = "new"
    /\ jm' = [jm EXCEPT ![j].st = IF fz # Off /\ fz.initialized /\ ~feasibility_request_cb(j)
                                 THEN "infeasible" ELSE "idle"]
    /\ UNCHANGED <<sc, left, core, acq, rm, fz, qm, reqs, toQm, toFz, edited, silent>>

-----------------------------------------------------------------------------
(* sched-fluxion-qmanager                                                  *)

Queue(par) ==
    [par |-> par, pending |-> << >>, provisional |-> << >>, active |-> FALSE, sched |-> FALSE,
     limit |-> FALSE, alloced |-> << >>, rejected |-> << >>, running |-> {}]

\* mod_start: a queue manager whose options are good waits for the resource module.
load_qmanager(c) ==
    \E o \in {qmanager_options(c.conf, c.args)} :
        /\ rm # Off /\ qm = Off
        /\ Happens("load")
        /\ qm' = IF o.ok THEN [st |-> "resource", parents |-> o.parents, todo |-> {}, quiet |-> 0,
                               queues |-> [n \in DOMAIN o.queues |-> Queue(o.queues[n])]]
                 ELSE Off
        /\ reqs' = IF o.ok THEN Append(reqs, [k |-> "notify", who |-> "qm"]) ELSE reqs
        /\ UNCHANGED <<sc, core, acq, rm, fz, jm, toQm, toFz, edited, silent>>

\* Jobs that wait are given back to the job manager, which asks again later; so are
\* those whose allocation was not yet answered.  Requests to rm are still underway.
qmanager_destroy ==
    /\ qm' = Off /\ toQm' = << >>
    /\ rm' = disconnect_request_cb("qm")
    /\ jm' = [j \in Job |-> IF jm[j].st = "waiting" THEN [jm[j] EXCEPT !.st = "idle"] ELSE jm[j]]
    /\ reqs' = [i \in DOMAIN reqs |-> IF reqs[i].k = "match" THEN [reqs[i] EXCEPT !.alive = FALSE]
                                      ELSE reqs[i]]
    /\ UNCHANGED <<sc, core, acq, fz, toFz, edited, silent>>

unload_qmanager ==
    /\ qm # Off /\ qm.st = "ready"
    /\ Happens("unload")
    /\ qmanager_destroy

Running == {j \in Job : jm[j].st = "running"}

\* A notify response.  The first one ends the handshake with the resource module.
update_on_resource_response ==
    LET woken == [n \in DOMAIN qm.queues |-> [qm.queues[n] EXCEPT !.sched = TRUE]]
        first == qm.st = "resource"
    IN  /\ qm # Off /\ qm.st \in {"resource", "ready"}
        /\ toQm # << >> /\ Head(toQm).k \in {"empty", "error"}
        /\ UNCHANGED left
        /\ IF Head(toQm) = StreamError THEN qmanager_destroy
           ELSE /\ qm' = [qm EXCEPT !.queues = woken, !.todo = IF first THEN Running ELSE @,
                                    !.st = IF first /\ Running # {} THEN "jobs" ELSE "ready"]
                /\ toQm' = Tail(toQm)
                /\ silent' = FALSE
                /\ UNCHANGED <<sc, core, acq, rm, fz, jm, reqs, toFz, edited>>

\* The R of a running job, as the hello protocol has it: without the ranks that were
\* freed in R_lite, with all of them in the scheduling key.
HelloR(j) == [jm[j].R EXCEPT !.ranks = @ \ jm[j].freed]

\* Variant: the freed ranks are not written into the scheduling key.
WithFreeRanks_plain(R, freed) == R

WithFreeRanks(R, freed) == IF R.writer = "none" THEN R ELSE [R EXCEPT !.free = freed]

queue_of(j) == resolve_queue_name(qm, QueueOf[j])

\* A job that had resources when the queue manager came.  One that cannot be taken
\* over gets a fatal exception.
jobmanager_hello_cb(j) ==
    LET n == queue_of(j)
        u == IF n \notin DOMAIN qm.queues THEN Error(rm)
             ELSE reapi_update_allocate(rm, j, WithFreeRanks(HelloR(j), jm[j].freed))
    IN  /\ qm # Off /\ qm.st = "jobs" /\ j \in qm.todo
        /\ reqs = << >>
        /\ rm' = u.ctx
        /\ qm' = [qm EXCEPT !.todo = @ \ {j}, !.st = IF qm.todo = {j} THEN "ready" ELSE @,
                            !.queues = IF u.ok THEN [qm.queues EXCEPT ![n].running = @ \cup {j}] ELSE @]
        /\ jm' = IF u.ok THEN jm ELSE [jm EXCEPT ![j].st = "killed"]
        /\ UNCHANGED <<sc, left, core, acq, fz, reqs, toQm, toFz, edited, silent>>

\* A new job waits for the next loop of its queue.
jobmanager_alloc_cb(j) ==
    LET n == queue_of(j)
    IN  /\ qm # Off /\ qm.st = "ready" /\ jm[j].st = "idle"
        /\ IF n \notin DOMAIN qm.queues
           THEN jm' = [jm EXCEPT ![j].st = "denied"] /\ UNCHANGED qm
           ELSE /\ jm' = [jm EXCEPT ![j].st = "waiting"]
                /\ qm' = [qm EXCEPT !.queues[n].provisional = Append(@, j), !.queues[n].sched = TRUE]
        /\ UNCHANGED <<sc, left, core, acq, rm, fz, reqs, toQm, toFz, edited, silent>>

\* Some or the last of the ranks of a job are free.  The queue looks at its jobs
\* again, unless the resource module could not release them.
jobmanager_free_cb(j, ranks) ==
    LET rest == jm[j].R.ranks \ jm[j].freed
        final == ranks = rest
        c == IF final THEN reapi_cancel(rm, j) ELSE reapi_cancel_R(rm, j, ranks)
        known == {n \in DOMAIN qm.queues : j \in qm.queues[n].running}
        done == c.ok /\ (final \/ c.full)
    IN  /\ qm # Off /\ qm.st = "ready" /\ reqs = << >>
        /\ jm[j].st = "running" /\ ranks # {} /\ ranks \subseteq rest
        /\ jm' = [jm EXCEPT ![j].freed = @ \cup ranks, ![j].st = IF final THEN "gone" ELSE @]
        /\ rm' = IF known = {} THEN rm ELSE c.ctx
        /\ qm' = [qm EXCEPT !.queues = [n \in DOMAIN qm.queues |->
                     IF n \notin known \/ ~c.ok THEN qm.queues[n]
                     ELSE [qm.queues[n] EXCEPT !.sched = TRUE, !.running = IF done THEN @ \ {j} ELSE @]]]
        /\ silent' = (silent /\ (known = {} \/ ~c.ok))
        /\ UNCHANGED <<sc, left, core, acq, fz, reqs, toQm, toFz, edited>>

\* The jobs one loop of a queue asks for.
pack_jobs(q) == SubSeq(q.pending, 1, Lesser(Len(q.pending), q.par.queue_depth))

run_sched_loop(q) ==
    LET p == q.pending \o q.provisional
    IN  IF q.active THEN q
        ELSE [q EXCEPT !.sched = FALSE, !.pending = p, !.provisional = << >>, !.active = p # << >>,
                       !.limit = @ \/ Len(p) > q.par.queue_depth]

\* The answers the job manager gets.
post_sched_loop(old, queues) ==
    LET given == UNION {ToSet(queues[n].alloced) : n \in DOMAIN queues}
        denied == UNION {ToSet(queues[n].rejected) : n \in DOMAIN queues}
    IN  [j \in Job |-> IF \E a \in given : a.j = j
                       THEN [old[j] EXCEPT !.st = "running", !.R = (CHOOSE a \in given : a.j = j).R]
                       ELSE IF \E d \in denied : d.j = j
                       THEN [old[j] EXCEPT !.st = (CHOOSE d \in denied : d.j = j).note]
                       ELSE old[j]]

\* When one queue is schedulable the loops of all start that can; then all answers
\* are sent.
check_watcher_cb ==
    LET names == DOMAIN qm.queues
        any == \E n \in names : qm.queues[n].sched
        looped == [n \in names |-> IF any THEN run_sched_loop(qm.queues[n]) ELSE qm.queues[n]]
        started == SetToSeq({n \in names : looped[n].active /\ ~qm.queues[n].active})
    IN  /\ qm # Off /\ qm.st = "ready"
        /\ any \/ \E n \in names : qm.queues[n].alloced \o qm.queues[n].rejected # << >>
        /\ jm' = post_sched_loop(jm, looped)
        /\ qm' = [qm EXCEPT !.queues = [n \in names |-> [looped[n] EXCEPT !.alloced = << >>,
                                                                          !.rejected = << >>]]]
        /\ reqs' = IF rm = Off THEN reqs
                   ELSE reqs \o [i \in DOMAIN started |->
                                   [k |-> "match", queue |-> started[i], alive |-> TRUE,
                                    jobs |-> pack_jobs(looped[started[i]])]]
        /\ UNCHANGED <<sc, left, core, acq, rm, fz, toQm, toFz, edited, silent>>

\* A job the loop does not expect is an error, and changes nothing.
handle_match_success(q, m) ==
    IF ~q.active \/ q.pending = << >> \/ Head(q.pending) # m.j THEN q
    ELSE [q EXCEPT !.pending = Tail(@), !.alloced = Append(@, [j |-> m.j, R |-> m.R]),
                   !.running = @ \cup {m.j}]

handle_match_failure(q, m) ==
    LET reject == m.err \notin {"EBUSY", "ENODATA"}
        note == IF m.err = "ENODEV" THEN "unsatisfiable" ELSE "denied"
    IN  IF ~q.active THEN q
        ELSE [q EXCEPT !.pending = IF reject THEN Tail(@) ELSE @,
                       !.rejected = IF reject THEN Append(@, [j |-> Head(q.pending), note |-> note]) ELSE @,
                       !.sched = @ \/ m.err = "ENODEV" \/ (m.err = "ENODATA" /\ q.limit),
                       !.limit = @ /\ m.err # "ENODATA",
                       !.active = FALSE]

match_multi_then ==
    LET msg == Head(toQm)
    IN  /\ qm # Off /\ qm.st = "ready" /\ toQm # << >> /\ msg.k = "match"
        /\ qm' = [qm EXCEPT !.queues[msg.queue] = IF msg.m.err = "" THEN handle_match_success(@, msg.m)
                                                  ELSE handle_match_failure(@, msg.m)]
        /\ toQm' = Tail(toQm)
        /\ silent' = ((silent \/ msg.m.err = "EINVAL") /\ ~qm'.queues[msg.queue].sched)
        /\ UNCHANGED <<sc, left, core, acq, rm, fz, jm, reqs, toFz, edited>>

\* Who asks whether the scheduler is idle waits while a loop is active.
quiescent_request_cb ==
    /\ qm # Off /\ qm.st = "ready"
    /\ Happens("quiescent")
    /\ qm' = [qm EXCEPT !.quiet = IF \E n \in DOMAIN qm.queues : qm.queues[n].active THEN @ + 1 ELSE @]
    /\ UNCHANGED <<sc, core, acq, rm, fz, jm, reqs, toQm, toFz, edited, silent>>

process_pending_quiescent_requests ==
    /\ qm # Off /\ qm.st = "ready" /\ qm.quiet > 0
    /\ \A n \in DOMAIN qm.queues : ~qm.queues[n].active
    /\ qm' = [qm EXCEPT !.quiet = 0]
    /\ UNCHANGED <<sc, left, core, acq, rm, fz, jm, reqs, toQm, toFz, edited, silent>>

-----------------------------------------------------------------------------

Init ==
    /\ sc \in Scenarios
    /\ left = sc.budget
    /\ core = sc.core
    /\ acq = << >> /\ reqs = << >> /\ toQm = << >> /\ toFz = << >>
    /\ rm = Off /\ fz = Off /\ qm = Off
    /\ jm = [j \in Job |-> [st |-> "new", R |-> NoR, freed |-> {}]]
    /\ edited = {} /\ silent = FALSE

CoreNext ==
    \/ \E r \in Rank : CoreUp(r) \/ CoreDown(r) \/ CoreLost(r)
    \/ \E e \in sc.expirations : CoreExpiration(e)

ModuleNext ==
    \/ \E c \in sc.rms : load_resource(c)
    \/ \E c \in sc.fzs : load_feasibility(c)
    \/ \E c \in sc.qms : load_qmanager(c)
    \/ unload_resource \/ unload_feasibility \/ unload_qmanager

AdminNext ==
    \/ \E r \in Rank, up \in BOOLEAN : set_status_request_cb(r, up)
    \/ \E r \in Rank : \/ set_property_request_cb(r) \/ remove_property_request_cb(r)
                       \/ add_subgraph_request_cb(r) \/ remove_subgraph_request_cb(r)
    \/ status_request_cb \/ quiescent_request_cb

HandlerNext ==
    \/ update_resource_then \/ notify_request_cb \/ match_multi_request_cb
    \/ feasibility_notified
    \/ update_on_resource_response \/ check_watcher_cb \/ match_multi_then
    \/ process_pending_quiescent_requests

JobNext ==
    \/ \E j \in Job : Submit(j) \/ jobmanager_alloc_cb(j) \/ jobmanager_hello_cb(j)
    \/ \E j \in Job, ranks \in SUBSET Rank : jobmanager_free_cb(j, ranks)

Next == CoreNext \/ ModuleNext \/ AdminNext \/ HandlerNext \/ JobNext

Spec == Init /\ [][Next]_vars

-----------------------------------------------------------------------------
(* Properties                                                              *)

\* Once the streams have been read, the resource module and a feasibility module,
\* whenever it was loaded, have the ranks, the status and the expiration core has,
\* unless somebody edited the graph.  That an expiration was lifted (0) is not kept
\* for those who subscribe later, so nothing is said of it.
SubscribersAgree ==
    (/\ rm # Off /\ fz # Off /\ acq = << >> /\ toFz = << >>
     /\ "fz" \in rm.notify_msgs /\ "graph" \notin edited)
    => \A ctx \in {rm, fz} : /\ ctx.ranks = core.ranks
                             /\ "status" \in edited \/ ctx.up = core.up
                             /\ core.exp # 0 => ctx.end = EndOf(core.exp)

\* When no message is underway and no queue is due for a loop, the job at the head of
\* a queue does not fit: no release and no change of the resources is overlooked.
NoStuckJob ==
    (/\ qm # Off /\ rm # Off /\ ~silent
     /\ acq = << >> /\ reqs = << >> /\ toQm = << >>
     /\ qm.st = "ready" /\ \A n \in DOMAIN qm.queues : ~qm.queues[n].sched)
    => \A n \in DOMAIN qm.queues :
          LET q == qm.queues[n]
          IN  (~q.active /\ q.pending # << >>)
              => traverser_run(rm, Head(q.pending), "allocate").err # ""

\* Over partial releases, lost nodes and reloads of either module, a running job holds
\* in the graph what it has not released, and nothing else.
JobsKeepResources ==
    (qm # Off /\ qm.st = "ready" /\ rm # Off)
    => \A j \in Running :
          LET mine == jm[j].R.ranks \ jm[j].freed
          IN  /\ Held(rm, j) \subseteq mine
              /\ mine \cap rm.ranks \cap core.ranks \subseteq Held(rm, j)

\* A job is killed when the modules are reloaded only if the resource module is gone,
\* a node of the job is, or its queue is, or it had released a part that the resource
\* module still remembers as its own.
RestartsKeepJobs ==
    [][\A j \in Job :
          (jm[j].st # "killed" /\ jm'[j].st = "killed")
          => \/ rm = Off
             \/ ~(jm[j].R.ranks \ jm[j].freed \subseteq rm.ranks \cap core.ranks)
             \/ queue_of(j) \notin DOMAIN qm.queues
             \/ jm[j].freed # {} /\ is_existent_jobid(rm, j)]_vars

\* The caches behind the status request never hide a change of status: of the nodes
\* that are there, the answer has all and knows which are down.
StatusCurrent ==
    (rm # Off /\ "graph" \notin edited)
    => /\ rm.ranks \subseteq StatusAll(rm)
       /\ StatusDown(rm) \cap rm.ranks = rm.ranks \ rm.up

\* Whatever the order and the source of the parameters, no queue looks deeper than its
\* own maximum.
DepthsInRange ==
    qm # Off => \A n \in DOMAIN qm.queues :
                   LET par == qm.queues[n].par
                   IN  /\ par.queue_depth \in 1 .. par.max_queue_depth
                       /\ par.policy # "hybrid" => par.reservation_depth <= par.max_reservation_depth

\* A job is denied as unsatisfiable only if the instance has too few nodes for it.
DeniedIsUnsatisfiable ==
    \A j \in Job \ Constrained : jm[j].st = "unsatisfiable" => Cardinality(core.ranks) < Need[j]
=============================================================================
