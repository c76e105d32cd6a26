\* A reply that fails closes a descriptor the reactor goes on to watch.
CONSTANTS
    c1 = c1
    c2 = c2
    Conns = {c1, c2}
    MaxFd = 2
    Workers = {w1}
    Reactor = Reactor
    Stopper = Stopper
    None = None
    Asks <- TwoAndOne
    Pieces = 2
    QueueCapacity = 1
SPECIFICATION Spec
PROPERTIES
    Serves
CHECK_DEADLOCK FALSE
