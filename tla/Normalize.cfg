SPECIFICATION Spec
CONSTANTS
    Inputs <- AllInputs
    Lower <- LowerWords
    Upper <- UpperWords
INVARIANTS
    KindsFit
    HandlesNameClasses
    DeclarationsAccountedFor
    SymbolsMeetNowhere
    ClassesNeverAbort
    CheckForetellsGenerate
    HandlesDeclared
CHECK_DEADLOCK FALSE
