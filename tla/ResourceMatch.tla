--------------------------- MODULE ResourceMatch ---------------------------
(***************************************************************************)
(* What the resource module and the feasibility module share               *)
(* (resource_match.cpp): a context that acquires resources, follows their   *)
(* status, matches jobs against them and remembers what it gave away.       *)
(*                                                                         *)
(* The graph is abstracted to execution targets (ranks), which jobs hold    *)
(* whole: the traverser, the readers and the writers have modules of their  *)
(* own.  An R is [ranks, start, end, writer, key, free]: R_lite, the times   *)
(* (an end of 0 is unset), the writer of its scheduling key ("none" without *)
(* one), the ranks of that key and those it says were freed.  A payload of  *)
(* resource.acquire is [res, up, down, lost, exp] with NoR, {} and -1 for    *)
(* what is absent.  Every operator returns a context, or [ok, ctx].         *)
(***************************************************************************)
EXTENDS FluxionOpts

CONSTANTS
    Rank,           (* execution targets, numbered                           *)
    Job,
    Need,           (* how many ranks a job asks for                         *)
    Constrained,    (* the jobs that ask for ranks with the property         *)
    FileRanks,      (* the ranks in the file of the option load-file         *)
    NoR, Nobody, Never

ASSUME MatchAssumption ==
    /\ Rank \subseteq Nat /\ IsFiniteSet(Rank) /\ FileRanks \subseteq Rank
    /\ Need \in [Job -> Nat \ {0}] /\ Constrained \subseteq Job
    /\ Nobody \notin Job /\ Never \notin Nat
    /\ NoR \notin [ranks : SUBSET Rank, start : {0}, end : Nat, writer : {"none"}, key : {{}},
                   free : {{}}]

\* resource_ctx_t as init_module leaves it; only the resource module acquires its
\* resources from core.
resource_ctx_t(opts, core) ==
    [opts |-> opts, core |-> core, root |-> FALSE, initialized |-> FALSE,
     ranks |-> {}, up |-> {}, nodes_up |-> 0, props |-> {}, end |-> Never,
     booked |-> [r \in Rank |-> Nobody], ups |-> {},
     updated |-> core, down_updated |-> TRUE, r_all |-> {}, r_down |-> {}, r_alloc |-> {},
     notify_resources |-> NoR, notify_lost |-> {}, notify_expiration |-> -1, notify_msgs |-> {},
     jobs |-> Empty, allocations |-> {}]

Done(ctx) == [ok |-> TRUE, ctx |-> ctx]

Error(ctx) == [ok |-> FALSE, ctx |-> ctx]

\* One call after another, up to the first error.
Then(r, does, Op(_)) == IF r.ok /\ does THEN Op(r.ctx) ELSE r

Held(ctx, j) == {r \in ctx.ranks : ctx.booked[r] = j}

-----------------------------------------------------------------------------
(* Resources: growing, marking and shrinking the graph.                    *)

EndOf(exp) == IF exp = 0 THEN Never ELSE exp

unpack_resources(R) ==
    [ok |-> R.start >= 0 /\ R.end >= 0 /\ (R.end = 0 \/ R.start < R.end), end |-> EndOf(R.end)]

\* Readers create vertices that are up.
load(ctx, ranks) ==
    [ctx EXCEPT !.root = TRUE, !.ranks = @ \cup ranks, !.up = @ \cup ranks,
                !.nodes_up = @ + Cardinality(ranks)]

\* There is nothing to load into a graph that has a root.
grow_resource_db_jgf(ctx, R) == Done(IF ctx.root THEN ctx ELSE load(ctx, R.ranks))

grow_resource_db_rv1exec(ctx, R) == IF ctx.root THEN Error(ctx) ELSE Done(load(ctx, R.ranks))

\* The first rank makes the root, the others are added to it.
grow_resource_db_hwloc(ctx, R) ==
    LET first == {r \in R.ranks : \A s \in R.ranks : r <= s}
        new   == (IF ctx.root THEN R.ranks \ first ELSE R.ranks) \ ctx.ranks
    IN  [ok |-> ~ctx.root \/ R.ranks \ first # {}, ctx |-> load(ctx, new)]

\* The reader follows from the scheduling key and from load-format.  A writer
\* nobody knows is logged and nothing is loaded, but no error is returned.
grow_resource_db(ctx, R) ==
    LET u == unpack_resources(R)
        format == ctx.opts["load-format"]
        jgf == R.writer = "jgf" /\ format # "rv1exec_force"
        g == IF jgf THEN grow_resource_db_jgf(ctx, R)
             ELSE IF format = "hwloc" THEN grow_resource_db_hwloc(ctx, R)
             ELSE IF format \in {"rv1exec", "rv1exec_force"} THEN grow_resource_db_rv1exec(ctx, R)
             ELSE Error(ctx)
    IN  IF ~u.ok THEN Error(ctx)
        ELSE IF R.writer \notin {"none", "jgf", "jgf_shorthand"} THEN Done(ctx)
        ELSE [g EXCEPT !.ctx = [@ EXCEPT !.end = u.end, !.updated = TRUE]]

\* Variant: the list of down nodes is not known to have changed.
mark_now_silent(ctx, ranks, up) ==
    LET changed == {r \in ranks \cap ctx.ranks : (r \in ctx.up) # up}
    IN  [ctx EXCEPT !.up = IF up THEN @ \cup changed ELSE @ \ changed,
                    !.nodes_up = IF up THEN @ + Cardinality(changed) ELSE @ - Cardinality(changed)]

\* Ranks that are not in the graph are skipped, and only changes are counted.
mark_now(ctx, ranks, up) ==
    LET changed == {r \in ranks \cap ctx.ranks : (r \in ctx.up) # up}
    IN  [ctx EXCEPT !.up = IF up THEN @ \cup changed ELSE @ \ changed,
                    !.nodes_up = IF up THEN @ + Cardinality(changed) ELSE @ - Cardinality(changed),
                    !.down_updated = TRUE]

\* Before the traverser is initialized, what is up is only remembered.
mark_lazy(ctx, ranks, up) == IF up THEN Done([ctx EXCEPT !.ups = ranks]) ELSE Error(ctx)

mark(ctx, ranks, up) ==
    IF ctx.initialized THEN Done(mark_now(ctx, ranks, up)) ELSE mark_lazy(ctx, ranks, up)

\* Jobs lose what they hold there.  The count of nodes that are up, the caches and
\* the table of jobs stay as they are.
shrink_resources(ctx, ranks) ==
    Done([ctx EXCEPT !.booked = [r \in Rank |-> IF r \in ranks THEN Nobody ELSE @[r]],
                     !.ranks = @ \ ranks, !.up = @ \ ranks, !.props = @ \ ranks])

\* What is lost is reported as down too, and is not marked.
update_resource_db(ctx, m) ==
    LET g == Then(Done(ctx), m.res # NoR, LAMBDA c : grow_resource_db(c, m.res))
        u == Then(g, m.up # {}, LAMBDA c : mark(c, m.up, TRUE))
        d == Then(u, m.down \ m.lost # {}, LAMBDA c : mark(c, m.down \ m.lost, FALSE))
    IN  Then(d, m.lost # {}, LAMBDA c : shrink_resources(c, m.lost))

\* Variant: what is lost is not kept for those who ask later.
update_resource_forgetful(ctx, m) ==
    LET d == update_resource_db(ctx, m)
        e == IF m.exp < 0 THEN d.ctx ELSE [d.ctx EXCEPT !.end = EndOf(m.exp)]
        n == [e EXCEPT !.notify_resources = IF m.res = NoR THEN @ ELSE m.res,
                       !.notify_expiration = IF m.exp > 0 THEN m.exp ELSE @]
    IN  IF ~d.ok THEN d ELSE Done(IF ctx.core THEN n ELSE e)

\* A response of resource.acquire, or of the resource module's notify.  What later
\* subscribers need is kept; an expiration of 0 is not.
update_resource(ctx, m) ==
    LET d == update_resource_db(ctx, m)
        e == IF m.exp < 0 THEN d.ctx ELSE [d.ctx EXCEPT !.end = EndOf(m.exp)]
        n == [e EXCEPT !.notify_resources = IF m.res = NoR THEN @ ELSE m.res,
                       !.notify_lost = @ \cup m.lost,
                       !.notify_expiration = IF m.exp > 0 THEN m.exp ELSE @]
    IN  IF ~d.ok THEN d ELSE Done(IF ctx.core THEN n ELSE e)

populate_resource_db_file(ctx) == Done([load(ctx, FileRanks) EXCEPT !.end = Never])

populate_resource_db(ctx, m) ==
    IF IsSet(ctx.opts, "load-file") THEN populate_resource_db_file(ctx)
    ELSE update_resource(ctx, m)

\* The traverser cannot be initialized without a root.
InitTraverser(ctx) == IF ctx.root THEN Done([ctx EXCEPT !.initialized = TRUE]) ELSE Error(ctx)

-----------------------------------------------------------------------------
(* Jobs.                                                                   *)

is_existent_jobid(ctx, j) == j \in DOMAIN ctx.jobs

Suits(ctx, j) == {r \in ctx.ranks : j \in Constrained => r \in ctx.props}

\* The writer of the scheduling key in the R of a job, by match-format.
WriterOf(ctx) ==
    CASE ctx.opts["match-format"] \in {"rv1", "jgf"} -> "jgf"
      [] ctx.opts["match-format"] \in {"rv1_shorthand", "jgf_shorthand"} -> "jgf_shorthand"
      [] OTHER -> "none"

Emit(ctx, ranks) ==
    [ranks |-> ranks, start |-> 0, end |-> 0, writer |-> WriterOf(ctx),
     key |-> IF WriterOf(ctx) = "none" THEN {} ELSE ranks, free |-> {}]

\* The first n of a set of ranks.
FirstOf(ranks, n) == {r \in ranks : Cardinality({s \in ranks : s < r}) < n}

Filters(ctx) == IF IsSet(ctx.opts, "prune-filters") THEN ToSet(ctx.opts["prune-filters"]) ELSE {}

\* dfu_traverser_t::run: the ranks for a job, or why there are none.  When nodes
\* are counted by the pruning filters, more nodes than are up are refused first.
traverser_run(ctx, j, cmd) ==
    LET free == {r \in Suits(ctx, j) \cap ctx.up : ctx.booked[r] = Nobody}
        few  == "ALL:node" \in Filters(ctx) /\ Need[j] > ctx.nodes_up
        satisfiable == Cardinality(Suits(ctx, j)) >= Need[j]
        sat  == cmd \in {"satisfiability", "allocate_with_satisfiability"}
        err  == IF cmd = "satisfiability" THEN (IF satisfiable THEN "" ELSE "ENODEV")
                ELSE IF few THEN (IF sat THEN "ENODEV" ELSE "EBUSY")
                ELSE IF Cardinality(free) >= Need[j] THEN ""
                ELSE IF sat /\ ~satisfiable THEN "ENODEV" ELSE "EBUSY"
    IN  [err |-> err, ranks |-> IF err = "" THEN FirstOf(free, Need[j]) ELSE {}]

track_schedule_info(ctx, j, R) ==
    [ctx EXCEPT !.jobs = With(@, j, [state |-> "ALLOCATED", R |-> R]), !.allocations = @ \cup {j}]

Book(ctx, j, ranks) == [ctx EXCEPT !.booked = [r \in Rank |-> IF r \in ranks THEN j ELSE @[r]]]

\* Only a match that allocates is tracked.
run_match(ctx, j, cmd) ==
    LET m == traverser_run(ctx, j, cmd)
        R == Emit(ctx, m.ranks)
        kept == m.err = "" /\ cmd \in {"allocate", "allocate_with_satisfiability"}
    IN  [err |-> m.err, R |-> R,
         ctx |-> IF kept THEN track_schedule_info(Book(ctx, j, m.ranks), j, R) ELSE ctx]

\* The reader follows from the scheduling key.  What the key says was freed is not
\* booked; without a key, R_lite is what is booked.
parse_R(R) ==
    [ok |-> R.writer \in {"none", "jgf", "jgf_shorthand"} /\ R.start >= 0
            /\ (R.end = 0 \/ R.start <= R.end),
     ranks |-> IF R.writer = "none" THEN R.ranks ELSE R.key \ R.free]

\* An update needs ranks that are there and free.
run_update(ctx, j, R) ==
    LET p == parse_R(R)
    IN  IF p.ok /\ p.ranks \subseteq ctx.ranks /\ \A r \in p.ranks : ctx.booked[r] = Nobody
        THEN Done(track_schedule_info(Book(ctx, j, p.ranks), j, Emit(ctx, p.ranks)))
        ELSE Error(ctx)

Rlite_equal(R1, R2) == R1.ranks = R2.ranks

Errored(ctx, j) ==
    IF is_existent_jobid(ctx, j) THEN [ctx EXCEPT !.jobs[j].state = "ERROR"] ELSE ctx

Forget(ctx, j) == [ctx EXCEPT !.jobs = [k \in DOMAIN @ \ {j} |-> @[k]]]

\* All of a job, or its part on some ranks.  A job that holds nothing, and a part
\* none of which is in the graph, cannot be removed: the job is errored and stays.
run_remove(ctx, j, ranks, part) ==
    LET mine == Held(ctx, j)
        gone == IF part THEN mine \cap ranks ELSE mine
        ok   == mine # {} /\ (part => ranks \cap ctx.ranks # {})
        left == [ctx EXCEPT !.booked = [r \in Rank |-> IF r \in gone THEN Nobody ELSE @[r]]]
        full == ~part \/ gone = mine
    IN  IF ~ok THEN [ok |-> FALSE, ctx |-> Errored(ctx, j), full |-> FALSE]
        ELSE [ok |-> TRUE, ctx |-> IF full THEN Forget(left, j) ELSE left, full |-> full]

-----------------------------------------------------------------------------
(* Changes an administrator asks for.                                      *)

\* A subgraph of one node, up.  Nothing counts it as up, and no cache is told.
run_add_subgraph(ctx, r) ==
    InitTraverser([ctx EXCEPT !.ranks = @ \cup {r}, !.up = @ \cup {r}])

run_remove_subgraph(ctx, r) ==
    IF r \notin ctx.ranks THEN Error(ctx)
    ELSE InitTraverser([ctx EXCEPT !.ranks = @ \ {r}, !.up = @ \ {r}, !.props = @ \ {r}])

\* find, for the criteria of the status request.
run_find(ctx, criteria) ==
    CASE criteria = "sched-now=allocated" -> {r \in ctx.ranks : ctx.booked[r] # Nobody}
      [] criteria = "status=down" -> ctx.ranks \ ctx.up
      [] criteria = "status=up or status=down" -> ctx.ranks
=============================================================================
