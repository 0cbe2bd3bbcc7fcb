------------------------------ MODULE MCTrees ------------------------------
(***************************************************************************)
(* The instance of the planner's trees for model checking.                  *)
(***************************************************************************)
EXTENDS PointTrees

MCPointTimes == 0 .. 9

\* The points of a planner in the order of insertion.
Points(times, amounts) == [i \in DOMAIN times |-> [at |-> times[i], amount |-> amounts[i]]]

\* From the empty tree; six points inserted in any order of their times; and
\* ten points, enough for a removal to be felt two levels up.
MCStarts ==
    {[points |-> << >>, more |-> 4]}
    \cup {[points |-> Points(times, amounts), more |-> 0] :
            times \in {s \in [1 .. 6 -> 0 .. 5] : IsInjective(s)},
            amounts \in {<<0, 1, 1, 2, 2, 3>>, <<3, 0, 2, 1, 2, 1>>}}
    \cup {[points |-> Points(times, amounts), more |-> 1] :
            times \in {<<0, 1, 2, 3, 4, 5, 6, 7, 8, 9>>, <<4, 9, 0, 7, 2, 5, 8, 1, 6, 3>>},
            amounts \in {<<0, 0, 1, 1, 1, 2, 2, 2, 3, 3>>, <<3, 0, 2, 1, 2, 1, 3, 0, 1, 2>>}}
=============================================================================
