\* All inputs of the calculations, up to the sizes in MCCalculations.
SPECIFICATION Spec
CONSTANTS
    Gap = Gap
    Unscoreable = Unscoreable
    Epsilon = 1
    Absent = Absent
    Numeral <- MCNumeral
    Comparisons <- MCComparisons
    Diffs <- MCDiffs
    Retrievals <- MCRetrievals
    Spans <- MCSpans
INVARIANTS
    ComparisonIsFair
    RetrievalScoresAgree
    NoAttributeLost
CHECK_DEADLOCK FALSE
