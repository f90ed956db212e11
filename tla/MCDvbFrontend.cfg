SPECIFICATION Spec
CONSTANTS
    w1 = w1
    w2 = w2
    r1 = r1
    t1 = t1
    t2 = t2
    NULL = NULL
    Writers = {w1, w2}
    Readers = {r1}
    Threads = {t1, t2}
    MaxOpens = 3
    MaxCalls = 1
INVARIANTS
    MutualExclusion
    OneThread
    FreedIsUnused
PROPERTIES
    AwakeWhileOpen
    SleepsWhenClosed
    RequestIsTuned
