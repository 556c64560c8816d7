SPECIFICATION QueueSpec
CONSTANTS
    g1 = g1  g2 = g2  g3 = g3  w1 = w1  w2 = w2  NoOwner = NoOwner
    Jobs = {j1, j2}
    Goroutines = {g1, g2, g3}
    WorkerIds = {w1, w2}
    WorkerId <- SharedIds
    MaxAttempts = 2
    MaxFaults = 2
INVARIANT AttemptsWithinPolicy
CHECK_DEADLOCK FALSE
