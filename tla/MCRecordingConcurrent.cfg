\* Two workers start and stop the recording of one channel; two job objects.
\* std::terminate ends some behaviours, the destructor ends the others.
CONSTANTS
    Keys = {k1}
    Jobs = {j1, j2}
    Callers = {c1, c2}
    NoJob = NoJob
SPECIFICATION SafeSpec
SYMMETRY Symmetry
INVARIANTS
    TypeOK
    NoOrphan
    NeverGivesUp
    DiscontinuityMarked
PROPERTIES
    StopWaitsOutsideStart
    HandlesAreJoined
CHECK_DEADLOCK FALSE
