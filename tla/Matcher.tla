------------------------------ MODULE Matcher ------------------------------
(***************************************************************************)
(* The matching layer of the traverser: the matcher's pruning and exclusive *)
(* types (resource/policies/base/matcher.cpp), the counts a jobspec asks    *)
(* for, the scores collected in a visit (resource/evaluators) and the       *)
(* choices the match policies make from them (resource/policies).           *)
(*                                                                          *)
(* A request of a jobspec is a record [type, min, max, oper, operand,       *)
(* exclusive, with]; "with" is the sequence of the requests under it.       *)
(***************************************************************************)
EXTENDS Integers, Sequences, FiniteSets, FiniteSetsExt, SequencesExt, Functions

CONSTANTS
    TypeOrder,  \* the resource types, in the order of their interned ids
    ANY,        \* ANY_RESOURCE_TYPE, which anchors a filter at every type
    SlotType,   \* the type of a slot request
    NodeType,   \* the type of a node
    MaxCount    \* the largest unsigned int

ASSUME MatcherAssumption ==
    /\ IsInjective(TypeOrder) /\ ANY \notin Range(TypeOrder) /\ SlotType \notin Range(TypeOrder)
    /\ NodeType \in Range(TypeOrder) /\ MaxCount \in Nat

\* Sum of f over a set.
SumOver(f(_), S) == MapThenSumSet(f, S)

(***************************************************************************)
(* Counts.                                                                  *)
(***************************************************************************)
\* The largest count of the request's progression that is within its range
\* and within what qualifies.
calc_count(r, qc) ==
    LET top == IF qc < r.max THEN qc ELSE r.max
        mul == {c \in r.min .. top : \E k \in 0 .. 5 : c = r.min * r.operand ^ k}
        pow == {c \in r.min .. top : \E k \in 0 .. 3 : c = r.min ^ (r.operand ^ k)}
    IN  IF r.min > r.max \/ r.min > qc THEN 0
        ELSE CASE r.oper = "+" -> top - ((top - r.min) % r.operand)
               [] r.oper = "*" -> IF r.operand = 1 THEN r.min ELSE Max(mul)
               [] r.oper = "^" -> IF r.operand < 2 \/ r.min = 1 THEN r.min ELSE Max(pow)

calc_effective_max(r) == calc_count(r, MaxCount)

(***************************************************************************)
(* Match policies.  The ones that are not named here (locality, variation)  *)
(* are classes of their own.                                                *)
(***************************************************************************)
policies ==
    [ first      |-> {"high", "node_centric", "stop_on_1_matches"},
      firstnodex |-> {"high", "node_centric", "node_exclusive", "stop_on_1_matches"},
      high       |-> {"high"},
      low        |-> {"low"},
      lonode     |-> {"low", "node_centric"},
      hinode     |-> {"high", "node_centric"},
      lonodex    |-> {"low", "node_centric", "node_exclusive"},
      hinodex    |-> {"high", "node_centric", "node_exclusive"} ]

\* mt.types maps an anchor type to the types its filters count and mt.total
\* has all of them; mt.x_types are the exclusive types; mt.high says whether
\* high scores are preferred, and mt.node_centric whether a node lends its
\* score to all that is in it.
create_match_cb(policy) ==
    LET options == policies[policy]
    IN  [ types        |-> [a \in {} |-> {}],
          total        |-> {},
          x_types      |-> IF "node_exclusive" \in options THEN {NodeType} ELSE {},
          high         |-> "high" \in options,
          node_centric |-> "node_centric" \in options,
          stop_on_k    |-> IF "stop_on_1_matches" \in options THEN 1 ELSE 0 ]

\* The factor of a node: add_score_factor (node_rt, 1, 10000).
NodeFactorAdd == 1

NodeFactorMultiply == 10000

calc_factor(base_factor, break_tie) ==
    LET tie == (break_tie % NodeFactorMultiply) - 1
    IN  (base_factor + NodeFactorAdd) * NodeFactorMultiply + (IF tie < 0 THEN -tie ELSE tie)

(***************************************************************************)
(* Pruning types.                                                           *)
(***************************************************************************)

AnchorTypes(mt, a) == IF a \in DOMAIN mt.types THEN mt.types[a] ELSE {}

\* A type that is counted everywhere is counted under no type of its own.
set_pruning_type(mt, anchor, type) ==
    LET dropped == IF anchor = ANY THEN [a \in DOMAIN mt.types |-> mt.types[a] \ {type}]
                                   ELSE mt.types
        adds == anchor = ANY \/ type \notin AnchorTypes(mt, ANY)
    IN  [mt EXCEPT !.total = @ \cup {type},
                   !.types = IF ~adds THEN @
                             ELSE [a \in DOMAIN @ \cup {anchor} |->
                                     (IF a \in DOMAIN @ THEN dropped[a] ELSE {})
                                       \cup (IF a = anchor THEN {type} ELSE {})]]

\* Pairs are registered in the order of the specification string.
set_pruning_types_w_spec(mt, pairs) ==
    FoldLeft(LAMBDA acc, p : set_pruning_type(acc, p[1], p[2]), mt, pairs)

is_pruning_type(mt, type) == type \in mt.total

\* The types a filter of a vertex of the type counts, in order.
get_my_pruning_types(mt, type) ==
    LET own == AnchorTypes(mt, type)
        any == AnchorTypes(mt, ANY) \ {type}
    IN  SelectSeq(TypeOrder, LAMBDA t : t \in own) \o SelectSeq(TypeOrder, LAMBDA t : t \in any)

add_exclusive_resource_types(mt, types) == [mt EXCEPT !.x_types = @ \cup types]

reset_exclusive_resource_types(mt, types) == [mt EXCEPT !.x_types = types]

is_resource_type_exclusive(mt, type) == type \in mt.x_types

(***************************************************************************)
(* Amounts by type.                                                         *)
(***************************************************************************)
NoCounts == [t \in {} |-> 0]

CountOf(acc, t) == IF t \in DOMAIN acc THEN acc[t] ELSE 0

accum_if(mt, type, count, acc) ==
    IF ~is_pruning_type(mt, type) THEN acc
    ELSE [t \in DOMAIN acc \cup {type} |-> CountOf(acc, t) + (IF t = type THEN count ELSE 0)]

\* accum_if for every type of another map.
AccumAll(mt, counts, acc) ==
    [t \in DOMAIN acc \cup {u \in DOMAIN counts : is_pruning_type(mt, u)} |->
        CountOf(acc, t) + CountOf(counts, t)]

(***************************************************************************)
(* Scores: type -> the edge groups found, and how many of them are chosen.  *)
(***************************************************************************)
NoEvals == [groups |-> << >>, best_k |-> 0, best_i |-> 0]

NoScores == [ev |-> [t \in {} |-> NoEvals], constrain |-> FALSE, score |-> -1, avail |-> 0]

Evals(dfu, t) == IF t \in DOMAIN dfu.ev THEN dfu.ev[t] ELSE NoEvals

SetEvals(dfu, t, e) ==
    [dfu EXCEPT !.ev = [u \in DOMAIN @ \cup {t} |-> IF u = t THEN e ELSE @[u]]]

add(dfu, t, group) ==
    SetEvals(dfu, t, [Evals(dfu, t) EXCEPT !.groups = Append(@, group)])

merge(dfu, ev) ==
    [dfu EXCEPT !.ev = [t \in DOMAIN @ \cup DOMAIN ev |->
        [Evals(dfu, t) EXCEPT
            !.groups = @ \o (IF t \in DOMAIN ev THEN ev[t].groups ELSE << >>)]]]

SumCounts(groups) == SumOver(LAMBDA i : groups[i].count, DOMAIN groups)

total_count(dfu, t) == SumCounts(Evals(dfu, t).groups)

\* The cutline is 0: a group of a visit that matched is above it.
qualified_count(dfu, t) == SumCounts(SelectSeq(Evals(dfu, t).groups, LAMBDA x : x.score > 0))

\* Stable for the few groups a vertex has: std::sort inserts then.
SortGroups(groups, high) ==
    LET before(i, k) == IF groups[i].score = groups[k].score THEN i < k
                        ELSE (groups[i].score > groups[k].score) = high
        order == SetToSortSeq(DOMAIN groups, before)
    IN  [i \in DOMAIN groups |-> groups[order[i]]]

choose_best_k(dfu, t, k, high) ==
    LET sorted == SortGroups(Evals(dfu, t).groups, high)
        upto(i) == SumOver(LAMBDA n : sorted[n].count, 1 .. i)
    IN  IF k = 0 \/ k > qualified_count(dfu, t) THEN dfu
        ELSE [SetEvals(dfu, t, [groups |-> sorted, best_k |-> k,
                                best_i |-> Min({i \in DOMAIN sorted : upto(i) >= k})])
                EXCEPT !.constrain = TRUE]

\* Counts for a sequence of requests, up to the first that is not met.
ChooseCounts(mt, dfu, requests) ==
    FoldLeft(LAMBDA acc, r :
               LET count == calc_count(r, qualified_count(acc.dfu, r.type))
               IN  IF ~acc.met \/ count = 0 THEN [acc EXCEPT !.met = FALSE]
                   ELSE [acc EXCEPT !.dfu = choose_best_k(acc.dfu, r.type, count, mt.high)],
             [dfu |-> dfu, met |-> TRUE], requests)

\* dom_finish_vtx of the policies: the children of the requests that the
\* visited vertex matches are chosen; factors is what the nodes above it lend.
dom_finish_vtx(mt, dfu, type, requests, id, factors) ==
    LET here == SelectSeq(requests, LAMBDA r : r.type = type)
        c == ChooseCounts(mt, dfu, FlattenSeq([i \in DOMAIN here |-> here[i].with]))
    IN  [dfu |-> [c.dfu EXCEPT !.score = IF c.met THEN factors + id + 2 ELSE 0], met |-> c.met]

dom_finish_graph(mt, dfu, requests) == ChooseCounts(mt, dfu, requests)

dom_finish_slot(mt, dfu) ==
    LET types == SelectSeq(TypeOrder, LAMBDA t : t \in DOMAIN dfu.ev)
    IN  FoldLeft(LAMBDA acc, t : choose_best_k(acc, t, qualified_count(acc, t), mt.high), dfu,
                 types)

(***************************************************************************)
(* Shares: whole groups are put together until they make a share.           *)
(***************************************************************************)
NewTally(per_share) == [per_share |-> per_share, prev_total |-> 0, accum |-> 0, shares |-> 0]

tally_add(tally, count) ==
    IF tally.per_share > 0 /\ tally.accum + count >= tally.per_share
    THEN [tally EXCEPT !.shares = @ + 1, !.accum = 0]
    ELSE [tally EXCEPT !.accum = @ + count]

tally_satisfies(tally, multiplier) == tally.per_share = 0 \/ tally.shares >= multiplier
=============================================================================
