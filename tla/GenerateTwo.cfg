SPECIFICATION Spec
CONSTANTS
    h1 = h1
    h2 = h2
    h3 = h3
    c1 = c1
    c2 = c2
    Handle = {c1, c2}
    Headers <- TwoHeaders
    Stem <- OwnStem
    IRs <- GoIRs
    DefaultNames = TRUE
    GoModule = FALSE
    WriteIr = FALSE
SYMMETRY Symmetry
INVARIANTS
    PipelineInv
    DeclaredOnceUnlessRecomputed
    OwnersCanDelete
    PromisesKeptIfAllReachGo
CHECK_DEADLOCK FALSE
