\* One recorder, one playback and the maintenance thread share a storage of
\* one segment; two segments, three units of time, one crash that may lose
\* the index, and a storage that goes away at any time.
CONSTANTS
    r1 = r1
    Recorders = {r1}
    ChannelOf <- OneChannel
    Players = {p1}
    Windows <- EarlyWindow
    Capacity = 1
    Lifetime = 1
    Second = 2
    Drivers = {"mysql", "memory"}
    MaxTime = 3
    MaxTakes = 2
    MaxCrashes = 1
SPECIFICATION Spec
INVARIANTS
    TypeOK
    ServedIsRecorded
PROPERTIES
    KeepsPromise
    LimitsAreReached
CHECK_DEADLOCK FALSE
