SPECIFICATION Spec
CONSTANTS
    None = None
    w1 = w1
    w2 = w2
    w3 = w3
    t1 = t1
    t2 = t2
    t3 = t3
    t4 = t4
    Workers = {w1, w2}
    Tasks = {t1, t2, t3}
    Timed = {t3}
    Hanging = {t1}
PROPERTIES
    EveryTaskIsTaken
    StopEndsWorkers
    ImplementsPool
