SPECIFICATION Spec
CONSTANTS
    parent = parent
    field = field
    other = other
    NoHandle = NoHandle
    NilParam = NilParam
    NoObject = NoObject
    Handle = {h1, h2, h3}
    Object <- MCObject
    Within <- MCWithin
    DestructorCallsGo = TRUE
    MaxDepth = 3
SYMMETRY Symmetry
INVARIANTS
    GuardProtects
    RootTellsLife
    WrapperInv
PROPERTY
    RepeatedCloseIsInterrupted
