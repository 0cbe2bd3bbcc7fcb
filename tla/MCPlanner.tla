----------------------------- MODULE MCPlanner -----------------------------
(***************************************************************************)
(* The instance of the planner for model checking.                          *)
(***************************************************************************)
EXTENDS PlannerClient

CONSTANTS core, gpu

MCResType == <<core, gpu>>

MCTotal == [ty \in {core, gpu} |-> IF ty = core THEN 2 ELSE 1]

MCNewTotals == {[MCTotal EXCEPT ![core] = 1], [MCTotal EXCEPT ![core] = 3]}

\* One type in part, both in full, nothing of the second; overlapping,
\* adjacent and, at the end of the plan, refused.
MCRequests ==
    { [start |-> 0, duration |-> 2, counts |-> [MCTotal EXCEPT ![core] = 1]],
      [start |-> 1, duration |-> 2, counts |-> [MCTotal EXCEPT ![gpu] = 0]],
      [start |-> 2, duration |-> 1, counts |-> MCTotal],
      [start |-> 3, duration |-> 1, counts |-> MCTotal] }

MCQueries ==
    { [on_or_after |-> 0, duration |-> 1, counts |-> [MCTotal EXCEPT ![core] = 1]],
      [on_or_after |-> 1, duration |-> 2, counts |-> [MCTotal EXCEPT ![core] = 1]],
      [on_or_after |-> 3, duration |-> 1, counts |-> MCTotal] }
=============================================================================
