----------------------------- MODULE ApiRequests -----------------------------
(***************************************************************************)
(* What the modules about requests to the API share: the requests that are *)
(* in flight, and the clock that they read.                                *)
(***************************************************************************)
EXTENDS Integers, FiniteSets

CONSTANTS
    Requests,  \* requests that may be in flight at the same time
    MaxTime    \* bound of the clock

ASSUME ApiRequestsAssumption ==
    /\ IsFiniteSet(Requests) /\ Requests # {}
    /\ MaxTime \in Nat

VARIABLE clock

Times == 0..MaxTime
=============================================================================
