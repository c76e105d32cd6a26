\* Two workers start and stop the recording of one channel; cameras may send
\* for ever. std::terminate ends some behaviours, the destructor the others.
CONSTANTS
    Keys = {k1}
    Jobs = {j1}
    Callers = {c1, c2}
    NoJob = NoJob
SPECIFICATION Spec
PROPERTIES
    StopReturnsUnlessOverridden
    Reconnects
CHECK_DEADLOCK FALSE
