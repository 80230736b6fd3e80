\* Two calls, two activations, one failed fetch or cancelled call.
CONSTANTS
    None = None  Error = Error
    Callers = {c1, c2}
    Settings <- SomeSettings
    Lives <- SomeLives
    FarFuture = 9  Buffer = 2  Threshold = 3  MaxDelay = 1
    MaxModes = 2  MaxTime = 2  MaxFaults = 1
SPECIFICATION Spec
SYMMETRY Interchangeable
INVARIANTS TypeOK StoreHonest
PROPERTY Promise
