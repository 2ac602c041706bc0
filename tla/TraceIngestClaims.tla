-------------------------- MODULE TraceIngestClaims --------------------------
(***************************************************************************)
(* What refresh_trace's comment says of it and overlapping requests do not *)
(* keep.                                                                   *)
(***************************************************************************)
EXTENDS MCTraceIngest

Quiet == \A r \in Requests : ~Active(r)

\* refresh_trace: a trace has one rollup, a second one never stays.
OneRollup ==
    Quiet => \A x, y \in rollups : x.trace = y.trace => x = y
=============================================================================
