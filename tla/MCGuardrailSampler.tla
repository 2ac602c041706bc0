------------------------- MODULE MCGuardrailSampler -------------------------
EXTENDS GuardrailSampler, TLC

CONSTANTS a, b, c, d, sound, raising

\* Project sound has three traces, two of which start together; project raising one
\* trace, whose checks raise.
ProjectOfDef == a :> sound @@ b :> sound @@ c :> sound @@ d :> raising
StartOfDef == a :> 1 @@ b :> 2 @@ c :> 2 @@ d :> 2
=============================================================================
