---------------------------- MODULE ReapiClient ----------------------------
(***************************************************************************)
(* A client of the resource API.  The larger calls are parameters           *)
(* (ReapiCli defines them), so that the client is the same whatever is      *)
(* behind them.                                                             *)
(*                                                                          *)
(* rq      the context it calls                                             *)
(* given   its own record: job -> [R, at, duration, freed, cut], where      *)
(*         freed are the ranks it has released, and cut says that a restart *)
(*         has read its R only up to one of them                            *)
(* events  how often it restarted, cloned, marked, changed or searched      *)
(*                                                                          *)
(* The client chooses its own job ids, as reapi_cli_match_with_jobid asks   *)
(* (so that the context's own counter of jobs is not read and left out),    *)
(* removes only resources no job holds, and restarts by loading the graph   *)
(* anew and updating it with the R of every job that is running.            *)
(***************************************************************************)
EXTENDS ReapiCli

CONSTANTS
    NewContext(_, _),           \* resource_query_new
    MatchAllocate(_, _, _, _),  \* match_allocate
    UpdateAllocate(_, _, _),    \* update_allocate
    CancelJob(_, _),            \* cancel
    CancelPart(_, _, _),        \* cancel_R
    Select(_, _, _, _),         \* dfu_impl_t::select
    Options,        \* of the contexts: load_format, match_format, matcher_policy, prune_filters
    Requests,       \* what the client submits: pairs of a jobspec and an operation
    MaxJobs,        \* bound on the number of its jobs
    Detachable,     \* the vertices whose subgraphs it removes and adds
    Criteria,       \* what it looks for: sets of vertices
    MaxCalls        \* bound on its jobs and all that it does besides ending them

VARIABLES rq, given, events

cvars == <<rq, given, events>>

ASSUME CliAssumption ==
    MaxJobs \in Nat /\ MaxCalls \in Nat /\ (\A r \in Requests : r[2] \in MatchOp)
        /\ Detachable \subseteq Vertex

(***************************************************************************)
(* The client.                                                              *)
(***************************************************************************)
Live == rq.allocations \cup rq.reservations

Submit(spec, op) ==
    LET jobid == Cardinality(DOMAIN given) + 1
        m == MatchAllocate(rq, spec, op, jobid)
        kept == m.err = "" /\ ~OnlyAsks(op)
    IN  /\ jobid <= MaxJobs /\ jobid + events <= MaxCalls
        /\ rq' = m.q
        /\ given' = IF ~kept THEN given
                    ELSE With(given, jobid, [R |-> m.R, at |-> m.r.at, duration |-> m.r.duration,
                                             freed |-> {}, cut |-> FALSE])
        /\ UNCHANGED events

Cancel(j) ==
    /\ j \in Live
    /\ rq' = CancelJob(rq, j).q
    /\ UNCHANGED <<given, events>>

\* The part of an R that is on some ranks, with its JGF or without.
Part(R, ranks, jgf) ==
    [R EXCEPT !.rlite = {e \in @ : e.rank \in ranks},
              !.jgf   = jgf,
              !.nodes = SelectSeq(@, LAMBDA n : Rank[n.v] \in ranks /\ n.exclusive)]

RanksOf(R) == {e.rank : e \in R.rlite}

Release(j, ranks, jgf) ==
    LET c == CancelPart(rq, j, Part(given[j].R, ranks, jgf))
    IN  /\ j \in rq.allocations
        /\ ranks # {} /\ ranks \subseteq RanksOf(given[j].R) \ given[j].freed
        /\ jgf => given[j].R.jgf
        /\ rq' = c.q
        /\ given' = [given EXCEPT ![j].freed = @ \cup ranks]
        /\ UNCHANGED events

\* What is left of a job's R after releases.
Remaining(r) == [r.R EXCEPT !.rlite = {e \in @ : e.rank \notin r.freed}, !.free_ranks = r.freed]

\* All that is not about one job; what changes nothing may happen any time.
Counted(q) ==
    /\ Cardinality(DOMAIN given) + events < MaxCalls \/ q = rq
    /\ rq' = q
    /\ events' = IF q = rq THEN events ELSE events + 1

Event(q) == Counted(q) /\ UNCHANGED given

\* The description of a graph that a context loads, or of a part that is added.
Described(vs) ==
    LET nodes == SetToSortSeq(vs, <)
    IN  [ nodes |-> [i \in DOMAIN nodes |->
                       [v |-> nodes[i], size |-> Size[nodes[i]], exclusive |-> FALSE]],
          edges |-> SetToSortSeq(vs \ {Root}, <),
          rlite |-> {[rank |-> Rank[n],
                      children |-> {<<Type[v], Id[v]>> : v \in {c \in vs \ {Root} : Parent[c] = n}}] :
                        n \in {v \in vs : Type[v] = NodeType}} ]

\* The shorthand reader stops at a node on a freed rank (update_vertices).
CutShort(r) == r.R.shorthand /\ r.freed # {}

Restart ==
    LET fresh == NewContext(Described(Vertex), rq.params)
        jobs  == SetToSortSeq(rq.allocations, <)
    IN  /\ rq.allocations # {}
        /\ Counted(FoldLeft(LAMBDA q, j : UpdateAllocate(q, j, Remaining(given[j])).q, fresh, jobs))
        /\ given' = [j \in DOMAIN given |->
             [given[j] EXCEPT !.cut = @ \/ (j \in rq.allocations /\ CutShort(given[j]))]]

Clone == \E lost \in SUBSET MayBeLost(rq.g) : Event(resource_query_copy(rq, lost))

Find(vs, own) == Event(find(rq, vs, own))

\* Nodes are taken down by their paths and brought up by their ranks.
SetStatus(v) ==
    /\ v \in rq.g.present
    /\ Event(set_status(rq, v, FALSE))

SetRankStatus(ranks) == Event(set_rank_status(rq, ranks, TRUE))

RemoveSubgraph(v) ==
    /\ v \in rq.g.present
    /\ \A w \in Subtree(rq.g, v) : rq.g.vtx[w].tags = {}
    /\ Event(remove_subgraph_at(rq, v))

AddSubgraph(v) ==
    /\ v \notin rq.g.present
    /\ Event(add_subgraph(rq, Described({w \in Vertex : w = v \/ v \in Ancestors(w)}
                                          \cup Ancestors(v))))

CliInit ==
    /\ rq \in {NewContext(Described(Vertex), o) : o \in Options}
    /\ given = NoSpans
    /\ events = 0

CliNext ==
    \/ \E r \in Requests : Submit(r[1], r[2])
    \/ \E j \in DOMAIN given : Cancel(j)
    \/ \E j \in DOMAIN given, ranks \in SUBSET Range(Rank), jgf \in BOOLEAN : Release(j, ranks, jgf)
    \/ Restart
    \/ Clone
    \/ \E vs \in Criteria, own \in BOOLEAN : Find(vs, own)
    \/ \E v \in Detachable : SetStatus(v) \/ RemoveSubgraph(v) \/ AddSubgraph(v)
    \/ SetRankStatus("all")

CliSpec == CliInit /\ [][CliNext]_cvars

(***************************************************************************)
(* Properties.                                                              *)
(***************************************************************************)
\* The cores and gpus an R names.
Leaves(R) == {v \in Vertex : \E e \in R.rlite :
                 e.rank = Rank[v] /\ <<Type[v], Id[v]>> \in e.children}

\* The jobs of which no restart has dropped a part.
Whole == {j \in Live : ~given[j].cut}

Overlap(r, s) == r.at < s.at + s.duration /\ s.at < r.at + r.duration

\* No core or gpu is in the Rs of two jobs for the same time, whatever was
\* allocated, reserved, released in part, restarted, cloned or marked since:
\* dfu_impl_t::prune and update with all that keeps the graph up to date.  Said of
\* the jobs whose R was read to its end at every restart: resources of a job that
\* was cut short are taken for free.
NoMultipleBooking ==
    \A j, k \in Whole : j # k /\ Overlap(given[j], given[k]) =>
        Leaves(Remaining(given[j])) \cap Leaves(Remaining(given[k])) = {}

SpanOf(x, j) ==
    x.plans.spans[IF j \in DOMAIN x.allocations THEN x.allocations[j] ELSE x.reservations[j]]

Holds(x, j) == j \in DOMAIN x.allocations \cup DOMAIN x.reservations


\* What one job holds exclusively, a node or a cluster, has no part that is
\* planned for another job at the same time (by_excl and the exclusive checkers
\* that upd_txfilter and mod_agfilter keep on all the vertices above a job).
ExclusiveIsAlone ==
    \A j, k \in Live : j # k /\ Overlap(given[j], given[k]) =>
        \A v \in rq.g.present : Holds(rq.g.vtx[v], j) =>
            \A w \in Subtree(rq.g, v) : ~Holds(rq.g.vtx[w], k)


\* What there is of a type under a vertex at a time, by the vertices' own plans.
FreeBelow(g, u, t, at) ==
    SumOver(LAMBDA v : planner_avail_resources_at(g.vtx[v].plans, at),
            {v \in Subtree(g, u) \ {u} : Type[v] = t})


\* The graph without its pruning filters.
Unpruned(g) == [g EXCEPT !.vtx = [v \in Vertex |-> [@[v] EXCEPT !.subplan = NoPlan]]]

Asks(spec, at) ==
    [jobid |-> 0, at |-> at, now |-> at, duration |-> spec.duration, alloc_type |-> "AT_ALLOC",
     constraint |-> spec.constraint]

\* Pruning costs no match: what the traverser finds with its filters is what it
\* would find without them (by_subplan).
PruningIsTransparent ==
    \A spec \in {r[1] : r \in Requests} :
        LET excl == exclusivity(spec.resources, Root)
        IN  Select(rq.g, spec.resources, Asks(spec, 0), excl).ok
              = Select(Unpruned(rq.g), spec.resources, Asks(spec, 0), excl).ok
=============================================================================
