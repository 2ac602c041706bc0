\* Three requests over two traces: overlaps of spans, of rollups and of locks.
SPECIFICATION Spec
CONSTANTS
    Requests = {r1, r2, r3}
    a = a
    b = b
    c = c
    t = t
    u = u
    Spans = {a, b, c}
    TraceOf <- TraceOfDef
    StartOf <- StartOfDef
    Roots = {a}
SYMMETRY Symmetry
INVARIANT OneRollup
CHECK_DEADLOCK FALSE
