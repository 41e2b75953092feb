SPECIFICATION Spec
CONSTANTS
    Inputs <- AllInputs
    Lower <- LowerWords
    Upper <- UpperWords
    ArrayLength = 2
    IntSpan = 4
    Indexes <- SomeIndexes
INVARIANTS
    NamesDeclaredOnce
    EveryFunctionOffered
    ImportsMatch
    DispatchesByType
    GuardsHold
    CallsEndClean
    ResultsHaveRoots
    ArraysSetInOrder
CHECK_DEADLOCK FALSE
