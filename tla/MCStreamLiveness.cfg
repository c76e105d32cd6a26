\* Two workers and the reactor on one session; cameras may send for ever.
CONSTANTS
    Connections = {c1}
    Sessions = {s1}
    Workers = {w1, w2}
    Reactor = Reactor
    RingCapacity = 1
    None = None
SPECIFICATION Spec
PROPERTIES
    StopReturnsUnlessOverridden
    UnreachableClientEndsReader
CHECK_DEADLOCK FALSE
