---------------------------- MODULE MCAdmission ------------------------------
(***************************************************************************)
(* The instance of Admission that TLC checks.                              *)
(***************************************************************************)
EXTENDS Admission, TLC

CONSTANTS k1, k2, p, q

MCProject == [k \in Keys |-> p]
MCScopes == [k \in Keys |-> IF k = k1 THEN {"admin", "ingest"} ELSE {"admin"}]
MCExpires == [k \in Keys |-> IF k = k2 THEN 1 ELSE Never]

MCTraffic == {[routes |-> {"ingest"}, until |-> MaxTime],
              [routes |-> Routes \ {"ingest"}, until |-> 1]}

Symmetry == Permutations(Requests)
=============================================================================
