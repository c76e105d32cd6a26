\* A client that waits for each reply and one that does not, two workers, one name.
CONSTANTS
    Clients = {c1, c2}
    Addresses = {a1, a2}
    Names = {n1}
    Workers = {w1, w2}
    QueueLimit = 2
    Pipeline = 2
    Polite = {c1}
    None = None
SPECIFICATION Spec
SYMMETRY Symmetry
INVARIANTS
    TypeOK
    OneHolder
    DigestMatchesSetting
PROPERTY UsersAreKept
CHECK_DEADLOCK FALSE
