\* Two workers and the reactor on the streams of one connection.
CONSTANTS
    Connections = {c1}
    Sessions = {s1, s2}
    Workers = {w1, w2}
    Reactor = Reactor
    RingCapacity = 1
    None = None
SPECIFICATION SafeSpec
SYMMETRY Symmetry
VIEW Visible
INVARIANTS
    TypeOK
    NoThreadOutlivesSession
    ClosedConnectionHasNoStream
    
CHECK_DEADLOCK FALSE
