SPECIFICATION Spec
CONSTANTS
    h1 = h1
    h2 = h2
    h3 = h3
    c1 = c1
    c2 = c2
    Handle = {c1}
    Headers <- TwoHeaders
    Stem <- OwnStem
    IRs <- UsableIRs
    DefaultNames = TRUE
    GoModule = TRUE
    WriteIr = TRUE
INVARIANT TypesDeclaredOnce
CHECK_DEADLOCK FALSE
