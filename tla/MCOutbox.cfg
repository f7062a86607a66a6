\* More messages than a batch holds; no symmetry, since liveness is checked.
SPECIFICATION OutFairSpec
CONSTANTS
    Messages = {m1, m2}
    Tasks = {t1, t2}
    NoMessage = NoMessage
    NoTask = NoTask
    BatchSize = 1
    MaxDuration = 15
    MaxExponent = 3
    MaxExact = 4
    Tick = 3
    MaxAttempt = 6
    Pow <- PowersOfTwo
INVARIANTS OutboxInv RetryIsLater
PROPERTIES FinalStatesKept PendingIsAttempted
