---------------------------- MODULE MCTraceIngest ----------------------------
EXTENDS TraceIngest, TLC

CONSTANTS a, b, c, t, u

\* Trace t has a root span that starts first and a later child; u has one span.
TraceOfDef == a :> t @@ b :> t @@ c :> u
StartOfDef == a :> 1 @@ b :> 2 @@ c :> 2

\* Requests differ in nothing but their name.
Symmetry == Permutations(Requests)
=============================================================================
