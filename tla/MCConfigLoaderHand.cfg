SPECIFICATION Spec
CONSTANTS
    Null = Null
    thread = thread
    hand = hand
    g1 = g1
    g2 = g2
    b1 = b1
    b2 = b2
    Thread = thread
    HandsOn = {hand}
    Readers = {}
    Bodies = {b1, b2}
    GraceTicks = 2
    ReadTicks = 1
    c1 = c1
    c2 = c2
    c3 = c3
    Addresses = {c1, c2, c3}
PROPERTIES
    HandsOnFailsWhileUpdating
