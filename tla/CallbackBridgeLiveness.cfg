SPECIFICATION FairSpec
CONSTANTS
    NoThread = NoThread
    NoFn = NoFn
    NoReceiver = NoReceiver
    Goroutine = {g1}
    NativeThread = {n1}
    Receiver = {r1}
    Callback = {c1}
    CallbacksRegister = TRUE
    MayPanic = TRUE
    MaxDepth = 2
PROPERTY
    ActivationsEnd
