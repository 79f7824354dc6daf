SPECIFICATION Spec
CONSTANTS
    None = None
    SpanTicks = 0
    LeaseTicks = 1
    MaxLate = 0
PROPERTIES
    StopStopsInteracting
