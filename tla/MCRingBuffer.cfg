\* Three consumers, three items at a time, nine pushed: the indices go round twice.
CONSTANTS
    Consumers = {c1, c2, c3}
    Capacity = 3
    DropOldest = TRUE
    MaxItems = 9
    Empty = Empty
SPECIFICATION Spec
SYMMETRY Symmetry
INVARIANTS
    TypeOK
    NobodyLeftAsleep
PROPERTY ImplementsQueue
