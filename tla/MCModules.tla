------------------------------ MODULE MCModules ------------------------------
(* Instances of FluxionModules for model checking.                          *)
EXTENDS FluxionModules

CONSTANTS j1, j2, j3

MCRank == {0, 1}
MCNeed == [j \in Job |-> IF j = j1 THEN 2 ELSE 1]
MCQueueOf == [j \in Job |-> IF j = j1 THEN "batch" ELSE "default"]

Opt(k, v) == [k |-> k, v |-> v]

\* Options of the resource module: a format of R, and pruning filters without nodes.
Plain == [table |-> Empty, args |-> << >>]
Cores(format) == [table |-> With(Empty, "prune-filters", <<"ALL:core">>),
                  args |-> <<Opt("match-format", format)>>]

\* A queue "batch" with parameters of its own, and a virtual one in front of it.
Batch == With(With(Empty, "batch", Unset), "default", "batch")
Queues(table) == [conf |-> [queues |-> Batch, table |-> table], args |-> << >>]
Depth(n) == Queues(With(Empty, "queue-params", With(Empty, "queue-depth", n)))
NoQueues == [conf |-> [queues |-> Unset, table |-> Empty], args |-> << >>]

Quiet == [events |-> {"load"}, budget |-> 2, jobs |-> {}, rms |-> {Cores("rv1_nosched")},
          fzs |-> {}, qms |-> {Queues(Empty)}, expirations |-> {0, 50},
          core |-> [ranks |-> Rank, up |-> Rank, exp |-> 40]]

\* Nodes come and go while the feasibility module subscribes.
Following == [Quiet EXCEPT !.events = @ \cup {"up", "down", "lost", "expiration", "unload"}, !.budget = 5,
                           !.fzs = {Plain}, !.qms = {}]

\* Jobs wait for nodes that come back.
Waiting == [Quiet EXCEPT !.events = @ \cup {"up", "down", "set-status"}, !.budget = 5, !.jobs = {j1, j2}]

\* Modules are reloaded, jobs are released in parts.
Reloading(format) ==
    [Quiet EXCEPT !.events = @ \cup {"unload"}, !.budget = 5, !.jobs = {j1},
                  !.rms = {Cores(format)}, !.qms = {Queues(Empty), NoQueues}]

ReloadingQueues == [Quiet EXCEPT !.events = @ \cup {"unload"}, !.budget = 4, !.jobs = {j1, j2},
                                 !.qms = {Depth(1)}]

Losing == [Quiet EXCEPT !.events = @ \cup {"unload", "lost"}, !.budget = 6, !.jobs = {j1},
                        !.rms = {Cores("rv1")}]

\* Status requests between changes.
Asking == [Quiet EXCEPT !.events = @ \cup {"status", "up", "down", "lost", "set-status"}, !.budget = 6,
                        !.rms = {[Plain EXCEPT !.args = <<Opt("update-interval", 5)>>]}, !.qms = {}]

\* The graph is edited under jobs that wait, one for a property.
Editing == [Quiet EXCEPT !.events = @ \cup {"property", "subgraph"}, !.budget = 4, !.jobs = {j2, j3}]

\* Requests that wait for an idle scheduler.
Idling == [Quiet EXCEPT !.events = @ \cup {"quiescent"}, !.budget = 4, !.jobs = {j1, j2}, !.qms = {Depth(1)}]

\* A file of resources: there is nothing to subscribe to.
FromFile == [table |-> With(Empty, "load-file", "file"), args |-> << >>]
Filed == [Quiet EXCEPT !.events = @ \cup {"unload", "down"}, !.budget = 5, !.jobs = {j2}, !.fzs = {Plain, FromFile},
                       !.rms = {FromFile, [FromFile EXCEPT !.args = <<Opt("load-file", "other")>>]}]

\* Options from the file, overridden by arguments; some are refused.
Limits(max, depth) == With(With(Empty, "max-queue-depth", max), "queue-depth", depth)
Reserve(max, depth) == With(With(Empty, "max-reservation-depth", max), "reservation-depth", depth)
PerQueue(key, v) == With(Empty, key, With(Empty, "batch", v))
Policy(p, q, params) ==
    Queues(With(With(With(Empty, "queue-policy", p), "queue-params", q), "policy-params", params))
Options == [Quiet EXCEPT !.budget = 3,
    !.rms = {Plain, Cores("rv1"), Cores("no-such-format"),
             [Plain EXCEPT !.args = <<Opt("policy", "first"), Opt("match-policy", "high")>>],
             [Plain EXCEPT !.args = <<Opt("policy", "no-such-policy")>>],
             [Plain EXCEPT !.args = <<Opt("update-interval", NotANumber), Opt("load-format", "hwloc")>>],
             [Plain EXCEPT !.args = <<Opt("load-format", "grug")>>],
             [Plain EXCEPT !.table = With(With(Empty, "traverser", "flexible"), "reserve-vtx-vec", 9)]},
    !.qms = {NoQueues, Queues(Empty), Depth(1), Depth(0), Depth(NotANumber),
             Policy("easy", Limits(8, 20), Empty), Policy("fcfs", Limits(8, 3), Empty),
             Policy("conservative", Limits(16, 12), Reserve(6, 9)),
             Policy("hybrid", Empty, Reserve(6, 3)), Policy("hybrid", Empty, Reserve(NotANumber, 3)),
             Policy("no-such-policy", Limits(0, 3), Empty),
             Queues(PerQueue("queue-params-per-queue", Limits(8, 20))),
             Queues(With(PerQueue("queue-policy-per-queue", "conservative"), "policy-params-per-queue",
                         With(Empty, "batch", Reserve(6, 2)))),
             Queues(With(Empty, "queue-policy-per-queue", With(Empty, "default", "easy"))),
             Queues(With(Empty, "queues", <<"batch">>)),
             [Queues(Empty) EXCEPT !.conf.queues = With(Batch, "default", "nowhere")],
             [Queues(Empty) EXCEPT !.args = <<Opt("queue-params", Limits(8, 20)), Opt("queue-policy", "easy")>>],
             [Queues(Empty) EXCEPT !.args = <<Opt("queues", <<"batch", "debug">>)>>],
             [Queues(Empty) EXCEPT !.args = <<Opt("queues", <<"batch", "batch">>)>>],
             [Queues(Empty) EXCEPT !.args = <<Opt("queue-params", Unset)>>],
             [Queues(Empty) EXCEPT !.args = <<Opt("queue-depth", 3)>>]}]

MCScenarios == {Following, Waiting, Reloading("rv1"), Reloading("rv1_nosched"), ReloadingQueues,
                Losing, Asking, Editing, Idling, Filed, Options}

\* Two queues that share the nodes of the instance.
MCTwoQueues == [j \in Job |-> IF j = j1 THEN "batch" ELSE "debug"]
MCShared ==
    {[Quiet EXCEPT !.jobs = {j1, j2},
                   !.qms = {[NoQueues EXCEPT !.conf.queues = With(With(Empty, "batch", Unset), "debug", Unset)]}]}

\* The default pruning filters, and a node that is drained.
MCDraining == {[Quiet EXCEPT !.events = @ \cup {"down"}, !.budget = 3, !.jobs = {j1}, !.rms = {Plain}]}
=============================================================================
