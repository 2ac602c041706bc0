------------------------------- MODULE SpanIds -------------------------------
(***************************************************************************)
(* What the modules about spans share: span ids, and the absence of one.   *)
(***************************************************************************)
EXTENDS FiniteSets

CONSTANTS
    Ids,       \* span ids, each drawn once
    None       \* no parent, no root

ASSUME SpanIdsAssumption == IsFiniteSet(Ids) /\ None \notin Ids
=============================================================================
