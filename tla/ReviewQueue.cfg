\* Two items, two people who review, two promotions and an upload.
SPECIFICATION Spec
CONSTANTS
    Items = {i1, i2}
    WithOutput = {i1}
    Controls = {i1, i2}
    Reviewers = {a1, a2}
    Promoters = {p1, p2}
    Uploaders = {u1}
    MaxExamples = 3
SYMMETRY Symmetry
INVARIANTS PromotionResolves ExampleOnce
PROPERTY JudgementsStand
CHECK_DEADLOCK FALSE
