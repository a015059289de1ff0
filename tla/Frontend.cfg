SPECIFICATION Spec
CONSTANTS
    Parse <- ReadSource
    Layout <- WriteSource
    Idents <- MCIdents
    Digits <- MCDigits
    Comments <- MCComments
    SortNames <- MCSortNames
    Files <- MCFiles
    Widths <- MCWidths
    MaxRuns = 2
    Word = 256
    MaxNanos = 127
    UnitSizes <- MCUnitSizes
INVARIANTS MeaningKept FormatIsStable CommentsKept ErrorsContained
CHECK_DEADLOCK FALSE
