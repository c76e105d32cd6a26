\* 3 workers, 2 posters, 4 tasks, a queue of 2, any number of restarts.
CONSTANTS
    Workers = {w1, w2, w3}
    Posters = {p1, p2}
    Tasks = {t1, t2, t3, t4}
    MaxTasks = 2
    NoTask = NoTask
SPECIFICATION Spec
INVARIANTS
    TypeOK
    EachTaskOnce
    NoLostWakeup
    StoppedIsDrained
PROPERTIES
    ImplementsService
    StopReturns
