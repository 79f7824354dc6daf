SPECIFICATION SafeSpec
CONSTANTS
    None = None
    SpanTicks = 1
    LeaseTicks = 2
    MaxLate = 2
INVARIANTS
    TypeOK
    UpMeansStarted
    CancelIsFinal
PROPERTIES
    UpIsKept
