\* Four rows of any kind; programs of up to three spans in two contexts; OTLP
\* requests of up to two spans.
SPECIFICATION TraceSpec
CONSTANTS
    Ids = {s1, s2, s3, s4}
    None = None
    MaxRows = 4
    MaxDepth = 2
    MaxSpans = 3
    Contexts = {c1, c2}
    Main = c1
    Spellings = {"lower", "base64"}
    MaxBatch = 2
    Requests <- MCRequests
SYMMETRY Symmetry
INVARIANTS EverySpanReturned OnlyBrokenLinksCut ParentIsEncloser OneRootPerTrace AnswerIsTruthful TreeMirrorsProgram
CHECK_DEADLOCK FALSE
