\* Two clients, two descriptors, one worker and a queue of one; the first
\* client sends two requests. Somebody may call stop().
CONSTANTS
    c1 = c1
    c2 = c2
    Conns = {c1, c2}
    MaxFd = 2
    Workers = {w1}
    Reactor = Reactor
    Stopper = Stopper
    None = None
    Asks <- TwoAndOne
    Pieces = 2
    QueueCapacity = 1
SPECIFICATION Spec
INVARIANTS
    TypeOK
    DescriptorsAreOwn
    FramesAreWhole
PROPERTIES
    ServesUnlessBlind
CHECK_DEADLOCK FALSE
