\* The worker, whose task object stays from run to run.
CONSTANTS
    h = h  w = w  s1 = s1  s2 = s2
    Task = {w}
    Reused = {w}
    Listed = {s1, s2}
    Dormant = {s2}
    Concurrency = 1
    DbFallback = TRUE
SPECIFICATION Spec
INVARIANT UnreadableIsOwn
