SPECIFICATION ClientSpec
CONSTANTS
    None = None
    Bad = Bad
    g1 = g1
    g2 = g2
    n1 = n1
    n2 = n2
    h1 = h1
    h2 = h2
    Readers = {g1, g2}
    Callers = {g1}
    Given = Given
    Names = {n1, n2}
    Hosts = {h1, h2}
    Answers <- MCAnswers
    SpanTicks = 2
    ReadTicks = 1
    MaxFlag = 3
INVARIANTS
    ClientTypeOK
    NoReadWhileWriting
PROPERTIES
    ImplementsDirectory
    ImplementsUpdatingThread
    ImplementsServiceCall
