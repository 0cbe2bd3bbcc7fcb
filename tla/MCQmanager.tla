----------------------------- MODULE MCQmanager -----------------------------
(***************************************************************************)
(* Small instances of the queue manager for TLC.                           *)
(***************************************************************************)
EXTENDS QueuePolicyLoops, TLC

CONSTANTS j1, j2, j3

\* The first two jobs were submitted in the same instant.
MCTSubmit == [j \in Job |-> IF j = j3 THEN 0 ELSE 1]

\* All jobs were submitted in the same instant: job ids are interchangeable.
MCTSubmitEqual == [j \in Job |-> 0]
MCSymmetry == Permutations(Job)

=============================================================================
