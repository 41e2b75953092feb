SPECIFICATION Spec
CONSTANTS
    h1 = h1
    h2 = h2
    h3 = h3
    c1 = c1
    c2 = c2
    Handle = {c1}
    Headers <- ThreeHeaders
    Stem <- OwnStem
    IRs <- AllIRs
    DefaultNames = TRUE
    GoModule = TRUE
    WriteIr = TRUE
INVARIANTS
    DefinedOnceUnlessShared
    StandIfStemsDiffer
CHECK_DEADLOCK FALSE
