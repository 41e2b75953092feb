SPECIFICATION Spec
CONSTANTS
    NoThread = NoThread
    NoFn = NoFn
    NoReceiver = NoReceiver
    Goroutine = {g1, g2}
    NativeThread = {n1}
    Receiver = {r1}
    Callback = {c1, c2}
    CallbacksRegister = TRUE
    MayPanic = TRUE
    MaxDepth = 2
SYMMETRY Symmetry
INVARIANTS
    RaceFree
    RegistryInv
    ToldWhatIsStored
PROPERTY
    ActsAsSlot
