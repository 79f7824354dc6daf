SPECIFICATION Spec
CONSTANTS
    None = None
    s1 = s1
    s2 = s2
    f1 = f1
    f2 = f2
    Submitters = {s1, s2}
    Functors = {f1, f2}
    MaxSubmits = 5
    PipeCap = 3
    RecvMax = 2
INVARIANTS
    TypeOK
    NoLostNotify
    InOrderOnce
PROPERTIES
    ImplementsMailbox
