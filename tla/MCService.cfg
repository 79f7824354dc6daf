SPECIFICATION Spec
CONSTANTS
    None = None
    w1 = w1
    w2 = w2
    late1 = late1
    r1 = r1
    r2 = r2
    r3 = r3
    p = p
    q = q
    Workers = {w1, w2}
    LateThread = late1
    Requests = {r1, r2, r3}
    Path <- MCPath
    Routes = {p}
    Behaviour <- MCBehaviour
    Careless <- MCCareless
    PipeCap = 1
    RecvMax = 1
    MaxSubmits = 4
INVARIANTS
    TypeOK
    RequestHasOneUser
    ExpiredGetTimeoutReply
    NoRequestIsLost
    QuietMeansAnswered
PROPERTIES
    ImplementsRequestReply
