SPECIFICATION Spec
CONSTANTS
    u = u
    v = v
    Workers = {u, v}
    MAX_RETRIES = 3
    LeaseTicks = 2
    RetryTicks = 1
    Outcomes = {"retryable"}
    LockModes = {"up", "down"}
    MayOverrun = FALSE
    MaxRuns = 1
    MaxManual = 0
    MaxFaults = 0
INVARIANT AttemptsBounded
