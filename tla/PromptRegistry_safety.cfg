SPECIFICATION FairRegistrySpec
CONSTANTS
    Creators = {c1, c2, c3}
    Movers = {m1, m2, m3}
    Pinners = {p1}
    Labels = {production}
    NoOne = NoOne
INVARIANTS NoSpuriousConflict ReferencesResolve
PROPERTIES ImplementsVersionLog CreatorsFinish
CHECK_DEADLOCK FALSE
