------------------------------ MODULE Timeline ------------------------------
(***************************************************************************)
(* What a planner of one resource promises: a set of bookings, each of an   *)
(* amount over an interval of time, that never adds up to more than the     *)
(* capacity.  The capacity may change.  When it falls below what is already *)
(* booked the planner is degraded, and nothing is promised of later         *)
(* bookings.                                                                *)
(***************************************************************************)
EXTENDS Integers, FiniteSets, FiniteSetsExt, Functions

VARIABLES
    booked,     \* booking id -> [start, last, planned]: planned in [start, last)
    capacity,   \* the amount there is
    degraded    \* whether the capacity has fallen below what was booked

tvars == <<booked, capacity, degraded>>

\* What a set of bookings takes at a time.
Used(b, t) ==
    MapThenSumSet(LAMBDA i : b[i].planned,
                  {i \in DOMAIN b : b[i].start <= t /\ t < b[i].last})

Fits(b, s, cap) == \A t \in s.start .. (s.last - 1) : Used(b, t) + s.planned <= cap

Covers(b, cap) == \A i \in DOMAIN b : \A t \in b[i].start .. (b[i].last - 1) : Used(b, t) <= cap

TInit == booked = [i \in {} |-> 0] /\ capacity \in Nat /\ degraded = FALSE

Book ==
    \E i \in DOMAIN booked' \ DOMAIN booked :
        /\ DOMAIN booked' = DOMAIN booked \cup {i}
        /\ Restrict(booked', DOMAIN booked) = booked
        /\ degraded \/ Fits(booked, booked'[i], capacity)
        /\ UNCHANGED <<capacity, degraded>>

Release ==
    \E i \in DOMAIN booked :
        /\ booked' = Restrict(booked, DOMAIN booked \ {i})
        /\ UNCHANGED <<capacity, degraded>>

Reduce ==
    \E i \in DOMAIN booked :
        /\ DOMAIN booked' = DOMAIN booked
        /\ booked'[i].planned < booked[i].planned
        /\ booked' = [booked EXCEPT ![i].planned = booked'[i].planned]
        /\ UNCHANGED <<capacity, degraded>>

Resize ==
    /\ capacity' # capacity
    /\ degraded' = (degraded \/ ~Covers(booked, capacity'))
    /\ UNCHANGED booked

Clear ==
    /\ booked' = [i \in {} |-> 0]
    /\ degraded' = FALSE
    /\ capacity' \in Nat

TNext == Book \/ Release \/ Reduce \/ Resize \/ Clear

TSpec == TInit /\ [][TNext]_tvars
=============================================================================
