----------------------------- MODULE MCReapiCli -----------------------------
(***************************************************************************)
(* The instance of the client API for model checking: a cluster of two      *)
(* nodes, the first with two cores, the second with one.                    *)
(***************************************************************************)
EXTENDS ReapiClient

CONSTANTS cluster, node, core

MCTypes == <<cluster, node, core>>
MCVertex == 1 .. 6
MCParent == [v \in 2 .. 6 |-> <<1, 1, 2, 2, 3>>[v - 1]]
MCType == <<cluster, node, node, core, core, core>>
MCSize == [v \in MCVertex |-> 1]
MCRank == <<-1, 0, 1, 0, 0, 1>>
MCId == <<0, 0, 1, 0, 1, 0>>

\* What the filters count: leaves, or nodes too.
LeafFilters == <<<<ANY, core>>>>

AllFilters == LeafFilters \o <<<<ANY, node>>>>

\* Shorthand goes with whole nodes, and R_lite alone without a filter for
\* nodes: a restart from R_lite takes every node of a job for exclusive, and
\* such a filter then keeps others off a node that still has free cores.
MCOptions ==
    { [load_format |-> "jgf", match_format |-> "rv1", matcher_policy |-> "first"],
      [load_format |-> "jgf", match_format |-> "rv1_shorthand", matcher_policy |-> "firstnodex"],
      [load_format |-> "rv1exec", match_format |-> "rv1_nosched", matcher_policy |-> "low",
       prune_filters |-> LeafFilters] }

Req(type, count, exclusive, with) ==
    [type |-> type, min |-> count, max |-> count, oper |-> "+", operand |-> 1,
     exclusive |-> exclusive, with |-> with]

Job(resources, duration) ==
    [resources |-> resources, duration |-> duration, constraint |-> NoConstraint]

Slot(n, with) == Req(SlotType, n, "T", with)

Core == <<Req(core, 1, "-", << >>)>>

OneCore == Job(<<Req(node, 1, "-", <<Slot(1, Core)>>)>>, 1)
OwnNode == Job(<<Req(node, 1, "T", <<Slot(1, Core)>>)>>, 2)
BothNodes == Job(<<Slot(2, <<Req(node, 1, "-", Core)>>)>>, 1)

MCRequests ==
    ({OneCore, OwnNode} \X {"MATCH_ALLOCATE_ORELSE_RESERVE"})
        \cup ({BothNodes} \X {"MATCH_ALLOCATE", "MATCH_SATISFIABILITY"})
        \cup ({OwnNode} \X {"MATCH_ALLOCATE_W_SATISFIABILITY", "MATCH_WITHOUT_ALLOCATING",
                            "MATCH_WITHOUT_ALLOCATING_FUTURE"})

\* A job that wants the cluster for itself: for MCvPartialCancel.
WholeCluster == Job(<<Req(cluster, 1, "T", <<Req(node, 1, "-", <<Slot(1, Core)>>)>>)>>, 1)

MCFirst == { [load_format |-> "jgf", match_format |-> "rv1", matcher_policy |-> "first"] }

MCClusterRequests == {BothNodes, WholeCluster} \X {"MATCH_ALLOCATE"}

MCCriteria == {{6}}
=============================================================================
