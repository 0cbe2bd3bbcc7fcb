---------------------------- MODULE FluxionOpts ----------------------------
(***************************************************************************)
(* How the Fluxion modules get their options: compiled-in defaults, the    *)
(* configuration file and the arguments of the module, in rising           *)
(* precedence (liboptmgr, qmanager_opts, resource_match_opts), and what the *)
(* queue policies make of the parameters of their queue.                   *)
(*                                                                         *)
(* A text is abstracted to what is read from it: a list of queues is a     *)
(* sequence of names, a table is a function, a list of parameters is a      *)
(* function from parameters to numbers, where a text that is no number is   *)
(* NotANumber.  Unset is the marker of an option nobody has given.  A       *)
(* store is a function from keys to values; every reader returns [ok, ...]. *)
(***************************************************************************)
EXTENDS Integers, FiniteSets, SequencesExt

CONSTANTS
    Unset,          (* RESOURCE_OPTS_UNSET_STR, QMANAGER_OPTS_UNSET_STR      *)
    NotANumber      (* a text that is_number and std::stoi refuse            *)

Empty == [k \in {} |-> Unset]

With(f, k, v) == [i \in DOMAIN f \cup {k} |-> IF i = k THEN v ELSE f[i]]

-----------------------------------------------------------------------------
(* optmgr: a store of options is filled, then read key by key.             *)

Fails == [ok |-> FALSE, kv |-> Empty]

\* Two keys the order of the store does not tell apart are one key.
put(s, k, v, Same(_, _)) ==
    IF s.ok /\ ~\E i \in DOMAIN s.kv : Same(i, k)
    THEN [ok |-> TRUE, kv |-> With(s.kv, k, v)]
    ELSE Fails

\* An argument without "=" is refused.
put_args(args, Same(_, _)) ==
    FoldLeft(LAMBDA s, a : IF a.v = Unset THEN Fails ELSE put(s, a.k, a.v, Same),
             [ok |-> TRUE, kv |-> Empty], args)

\* Known keys are read in the order of the table; an unknown one is an error.
parse_all(s, known, parse(_, _, _), opts) ==
    IF ~s.ok \/ ~(DOMAIN s.kv \subseteq ToSet(known)) THEN [ok |-> FALSE, opts |-> opts]
    ELSE FoldLeft(LAMBDA acc, k : IF acc.ok /\ k \in DOMAIN s.kv
                                  THEN parse(acc.opts, k, s.kv[k]) ELSE acc,
                  [ok |-> TRUE, opts |-> opts], known)

Yes(opts) == [ok |-> TRUE, opts |-> opts]

No(opts) == [ok |-> FALSE, opts |-> opts]

\* What of a higher precedence is set replaces what is there.
Override(old, new) == IF new = Unset THEN old ELSE new

-----------------------------------------------------------------------------
(* The queue manager's options.                                            *)

queue_prop_t == [queue_policy |-> Unset, queue_params |-> Unset, policy_params |-> Unset]

qmanager_opts_t == [prop |-> queue_prop_t, per_queue |-> Empty, parents |-> Empty]

known_queue_policy == {"fcfs", "easy", "hybrid", "conservative"}

qmanager_tab ==
    <<"queues", "queue-policy", "queue-params", "policy-params", "queue-policy-per-queue",
      "queue-params-per-queue", "policy-params-per-queue", "vqueue-parents">>

\* An unknown policy leaves the property as it is.
set_queue_policy(prop, v) == IF v \in known_queue_policy THEN [prop EXCEPT !.queue_policy = v] ELSE prop

parse_queues(o, names) ==
    IF IsInjective(names)
    THEN Yes([o EXCEPT !.per_queue = [n \in ToSet(names) |-> queue_prop_t]])
    ELSE No(o)

\* The queues a per-queue option names must have been named before: they are the
\* queues of the same source, virtual queues left out.
per_queue(o, table, set(_, _)) ==
    IF DOMAIN table \subseteq DOMAIN o.per_queue
    THEN Yes([o EXCEPT !.per_queue = [n \in DOMAIN @ |-> IF n \in DOMAIN table
                                                        THEN set(@[n], table[n]) ELSE @[n]]])
    ELSE No(o)

set_queue_params(prop, v) == [prop EXCEPT !.queue_params = v]

set_policy_params(prop, v) == [prop EXCEPT !.policy_params = v]

qmanager_parse(o, k, v) ==
    CASE k = "queues"                  -> parse_queues(o, v)
      [] k = "queue-policy"            -> Yes([o EXCEPT !.prop = set_queue_policy(@, v)])
      [] k = "queue-params"            -> Yes([o EXCEPT !.prop = set_queue_params(@, v)])
      [] k = "policy-params"           -> Yes([o EXCEPT !.prop = set_policy_params(@, v)])
      [] k = "queue-policy-per-queue"  -> per_queue(o, v, set_queue_policy)
      [] k = "queue-params-per-queue"  -> per_queue(o, v, set_queue_params)
      [] k = "policy-params-per-queue" -> per_queue(o, v, set_policy_params)
      [] k = "vqueue-parents"          -> Yes([o EXCEPT !.parents = v])

\* operator+=.  The queues of a source replace all queues known so far, and their
\* properties with them.
qmanager_compose(o, src) ==
    [prop |-> [f \in DOMAIN o.prop |-> Override(o.prop[f], src.prop[f])],
     per_queue |-> IF src.per_queue = Empty THEN o.per_queue ELSE src.per_queue,
     parents |-> IF src.parents = Empty THEN o.parents ELSE src.parents]

qmanager_canonicalize(o) ==
    LET queues == IF o.per_queue = Empty THEN With(Empty, "default", queue_prop_t) ELSE o.per_queue
    IN  [o EXCEPT !.per_queue = [n \in DOMAIN queues |->
                                   [f \in DOMAIN o.prop |-> Override(o.prop[f], queues[n][f])]]]

resolve_queue_name(o, name) == IF name \in DOMAIN o.parents THEN o.parents[name] ELSE name

\* A virtual queue must name a queue that exists and is not virtual.
classify_queues(conf) ==
    LET virtual == {n \in DOMAIN conf : conf[n] # Unset}
    IN  [ok |-> \A n \in virtual : conf[n] \in DOMAIN conf \ virtual,
         queues |-> SetToSeq(DOMAIN conf \ virtual),
         parents |-> [n \in virtual |-> conf[n]]]

SameKey(k1, k2) == k1 = k2

qmanager_set_default ==
    qmanager_compose(qmanager_opts_t,
                     [qmanager_opts_t EXCEPT !.prop = [queue_policy |-> "fcfs", queue_params |-> Empty,
                                                       policy_params |-> Empty]])

\* The table of queues is given apart (RFC 33): the module's own table has no such
\* key.  Options are replaced only when all of the file has been read.
qmanager_process_config_file(o, conf) ==
    LET q == classify_queues(conf.queues)
        none == [ok |-> TRUE, kv |-> Empty]
        named == IF conf.queues = Unset THEN none
                 ELSE IF ~q.ok THEN Fails
                 ELSE LET s == put(none, "queues", q.queues, SameKey)
                      IN  IF q.parents = Empty THEN s
                          ELSE put(s, "vqueue-parents", q.parents, SameKey)
        s == FoldLeft(LAMBDA acc, k : put(acc, k, conf.table[k], SameKey), named,
                      SetToSeq(DOMAIN conf.table))
        r == parse_all(s, qmanager_tab, qmanager_parse, qmanager_opts_t)
    IN  IF "queues" \in DOMAIN conf.table \/ ~r.ok THEN No(o)
        ELSE Yes(qmanager_compose(o, r.opts))

qmanager_process_args(o, args) ==
    LET r == parse_all(put_args(args, SameKey), qmanager_tab, qmanager_parse, qmanager_opts_t)
    IN  IF r.ok THEN Yes(qmanager_compose(o, r.opts)) ELSE No(o)

-----------------------------------------------------------------------------
(* Queue parameters.                                                       *)

DEFAULT_QUEUE_DEPTH == 32
MAX_QUEUE_DEPTH == 1000000
HYBRID_RESERVATION_DEPTH == 64
MAX_RESERVATION_DEPTH == 100000

\* A queue, as the factory makes it for a policy.
create_queue_policy(policy) ==
    [policy |-> policy, queue_depth |-> DEFAULT_QUEUE_DEPTH, max_queue_depth |-> MAX_QUEUE_DEPTH,
     reservation_depth |-> CASE policy = "fcfs" -> 0
                             [] policy = "easy" -> 1
                             [] policy = "hybrid" -> HYBRID_RESERVATION_DEPTH
                             [] policy = "conservative" -> MAX_RESERVATION_DEPTH,
     max_reservation_depth |-> MAX_RESERVATION_DEPTH]

IsDepth(v) == v \in Nat \ {0}

Lesser(a, b) == IF a < b THEN a ELSE b

\* Variant: the depth is set before the maximum is known.
base_apply_params_early(q, params) ==
    LET given == {"max-queue-depth", "queue-depth"} \cap DOMAIN params
        max == IF "max-queue-depth" \in given THEN params["max-queue-depth"] ELSE q.max_queue_depth
        depth == IF "queue-depth" \in given THEN params["queue-depth"] ELSE q.queue_depth
        ok == \A k \in given : IsDepth(params[k])
    IN  [ok |-> ok,
         q |-> IF ok THEN [q EXCEPT !.queue_depth = Lesser(depth, q.max_queue_depth),
                                    !.max_queue_depth = max] ELSE q]

\* The maximum is applied first and clips the depth, the depth is clipped to it.
base_apply_params(q, params) ==
    LET given == {"max-queue-depth", "queue-depth"} \cap DOMAIN params
        max == IF "max-queue-depth" \in given THEN params["max-queue-depth"] ELSE q.max_queue_depth
        depth == IF "queue-depth" \in given THEN params["queue-depth"] ELSE q.queue_depth
        ok == \A k \in given : IsDepth(params[k])
    IN  [ok |-> ok,
         q |-> IF ok THEN [q EXCEPT !.max_queue_depth = max, !.queue_depth = Lesser(depth, max)] ELSE q]

\* std::stoi throws on what is no number: the parameters after it are skipped, and
\* no error is returned.  A reservation depth that is not below the maximum is
\* ignored, and the maximum does not clip the depth that is set.
hybrid_apply_params(q, params) ==
    LET max == IF "max-reservation-depth" \in DOMAIN params THEN params["max-reservation-depth"]
               ELSE q.max_reservation_depth
        depth == IF "reservation-depth" \in DOMAIN params THEN params["reservation-depth"]
                 ELSE q.reservation_depth
    IN  IF max = NotANumber THEN [ok |-> TRUE, q |-> q]
        ELSE [ok |-> IsDepth(max) /\ (depth = NotANumber \/ IsDepth(depth)),
              q |-> [q EXCEPT !.max_reservation_depth = max,
                              !.reservation_depth = IF depth = NotANumber THEN @
                                                    ELSE IF depth < max THEN depth ELSE @]]

conservative_apply_params(q, params) ==
    LET clipped == [q EXCEPT !.reservation_depth = Lesser(@, q.queue_depth)]
        max == IF "max-reservation-depth" \in DOMAIN params THEN params["max-reservation-depth"]
               ELSE NotANumber
    IN  IF max = NotANumber THEN [ok |-> TRUE, q |-> clipped]
        ELSE [ok |-> IsDepth(max),
              q |-> [clipped EXCEPT !.max_reservation_depth = max,
                                    !.reservation_depth = Lesser(@, max)]]

apply_params(q, prop) ==
    LET b == base_apply_params(q, prop.queue_params)
        r == CASE q.policy = "hybrid"       -> hybrid_apply_params(b.q, prop.policy_params)
               [] q.policy = "conservative" -> conservative_apply_params(b.q, prop.policy_params)
               [] OTHER                     -> [ok |-> TRUE, q |-> b.q]
    IN  [ok |-> b.ok /\ r.ok, q |-> r.q]

\* One queue for each of the canonical options; one that cannot be made stops the
\* module: its policy is unknown, or its parameters are unset or refused.
enforce_queues(opts) ==
    LET o == qmanager_canonicalize(opts)
        good(prop) == /\ prop.queue_policy \in known_queue_policy
                      /\ prop.queue_params # Unset /\ prop.policy_params # Unset
        made == [n \in DOMAIN o.per_queue |->
                   apply_params(create_queue_policy(o.per_queue[n].queue_policy), o.per_queue[n])]
    IN  [ok |-> \A n \in DOMAIN made : good(o.per_queue[n]) /\ made[n].ok,
         queues |-> [n \in DOMAIN made |-> made[n].q]]

\* What a queue manager started with this file and these arguments schedules.
qmanager_options(conf, args) ==
    LET c == qmanager_process_config_file(qmanager_set_default, conf)
        a == qmanager_process_args(c.opts, args)
        e == enforce_queues(a.opts)
    IN  IF c.ok /\ a.ok /\ e.ok THEN [ok |-> TRUE, queues |-> e.queues, parents |-> a.opts.parents]
        ELSE [ok |-> FALSE, queues |-> Empty, parents |-> Empty]

-----------------------------------------------------------------------------
(* The options of the resource and the feasibility module.                 *)

resource_tab ==
    <<"load-file", "load-format", "load-allowlist", "policy", "match-policy", "match-format",
      "subsystems", "reserve-vtx-vec", "prune-filters", "update-interval", "traverser">>

Properties == ToSet(resource_tab) \ {"match-policy"}

resource_opts_t == [p \in Properties |-> Unset]

known_resource_reader == {"rv1exec", "rv1exec_force", "hwloc", "jgf", "jgf_shorthand", "grug"}

known_match_format ==
    {"simple", "pretty_simple", "jgf", "jgf_shorthand", "rlite", "rv1", "rv1_nosched",
     "rv1_shorthand"}

\* The policies by name; a policy spelled out as a list of properties is not modelled.
known_match_policy == {"first", "firstnodex", "high", "low", "hinode", "lonode", "hinodex",
                       "lonodex", "locality", "variation"}

known_traverser_policy == {"simple", "flexible"}

\* policy and match-policy are the same place in the table.
SameOption(k1, k2) == k1 = k2 \/ {k1, k2} = {"policy", "match-policy"}

InRange(v) == v # NotANumber /\ v \in 1 .. 2000000

IsSet(o, p) == o[p] # Unset

SetOption(o, p, v) == [o EXCEPT ![p] = v]

add_to_prune_filters(o, v) ==
    IF IsSet(o, "prune-filters") THEN [o EXCEPT !["prune-filters"] = @ \o v]
    ELSE SetOption(o, "prune-filters", v)

\* An unknown reader or format is reported and the default kept, an unknown policy
\* is an error, a number out of range is dropped without a word, and filters add up.
resource_parse(o, k, v) ==
    LET p == IF k = "match-policy" THEN "policy" ELSE k
        set == SetOption(o, p, v)
    IN  CASE p = "load-format"  -> Yes(IF v \in known_resource_reader THEN set ELSE o)
          [] p = "match-format" -> Yes(IF v \in known_match_format THEN set ELSE o)
          [] p = "policy"       -> IF v \in known_match_policy THEN Yes(set) ELSE No(o)
          [] p = "traverser"    -> IF v \in known_traverser_policy THEN Yes(set) ELSE No(o)
          [] p \in {"reserve-vtx-vec", "update-interval"} -> Yes(IF InRange(v) THEN set ELSE o)
          [] p = "prune-filters" -> Yes(IF v = << >> THEN o ELSE add_to_prune_filters(o, v))
          [] OTHER -> Yes(set)

\* operator+=
resource_compose(o, src) == [p \in Properties |-> Override(o[p], src[p])]

\* An update interval of 0 is the unset one.
resource_set_default_args ==
    [resource_opts_t EXCEPT !["load-format"] = "rv1exec", !["subsystems"] = <<"containment">>,
                            !["policy"] = "first", !["match-format"] = "rv1_nosched",
                            !["prune-filters"] = <<"ALL:core", "ALL:node">>,
                            !["traverser"] = "simple"]

feasibility_set_default_args ==
    [resource_set_default_args EXCEPT
        !["prune-filters"] = <<"ALL:core", "ALL:node", "ALL:gpu", "ALL:ssd">>, !["traverser"] = Unset]

resource_process_config_file(o, table) ==
    LET s == FoldLeft(LAMBDA acc, k : put(acc, k, table[k], SameOption),
                      [ok |-> TRUE, kv |-> Empty], SetToSeq(DOMAIN table))
        r == parse_all(s, resource_tab, resource_parse, resource_opts_t)
    IN  IF r.ok THEN Yes(resource_compose(o, r.opts)) ELSE No(o)

resource_process_args(o, args) ==
    LET r == parse_all(put_args(args, SameOption), resource_tab, resource_parse, resource_opts_t)
    IN  IF r.ok THEN Yes(resource_compose(o, r.opts)) ELSE No(o)

get_update_interval(o) == IF IsSet(o, "update-interval") THEN o["update-interval"] ELSE 0

resource_options(defaults, table, args) ==
    LET c == resource_process_config_file(defaults, table)
        a == resource_process_args(c.opts, args)
    IN  [ok |-> c.ok /\ a.ok, opts |-> a.opts]
=============================================================================
