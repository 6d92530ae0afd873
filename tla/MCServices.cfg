SPECIFICATION ServicesSpec
CONSTANTS
    h1 = h1
    p1 = p1
    t1 = t1
    t2 = t2
    Hooks = {h1}
    Payments = {p1}
    WebhookTasks = {t1, t2}
    WEBHOOK_MAX_RETRIES = 2
    MAX_WEBHOOKS_PER_ACCOUNT = 1
    InsertReports = {"opaque"}
    MaxDeliveries = 1
    MaxWebhookRequests = 1
    MaxStreams = 1
    b1 = b1
    b2 = b2
    s1 = s1
    c1 = c1
    c2 = c2
    alice = alice
    bob = bob
    Backends = {b1, b2}
    Schedules = {s1}
    SubmitCalls = {c1, c2}
    Accounts = {alice, bob}
    Owner = alice
    MAX_SCHEDULES_PER_ACCOUNT = 1
    MaxPending = 1
    MaxChanges = 1
    i1 = i1
    i2 = i2
    Indexers = {i1, i2}
    MaxLedger = 2
    MaxIndexerFaults = 1
    wa = wa
    wb = wb
    Workers = {wa, wb}
    MAX_RETRIES = 2
    LeaseTicks = 1
    RetryTicks = 1
    Outcomes = {"retryable"}
    LockModes = {"up", "down"}
    MayOverrun = FALSE
    MaxRuns = 1
    MaxManual = 0
    MaxFaults = 1
INVARIANTS
    ServicesTypeOK
    NoEventSkipped
PROPERTIES
    PendingExecutionsAreSafe
    EveryDeliverySettles
    ClaimedIsResolved
    EventsAreIndexed
    ExecutionsAreResolved
CHECK_DEADLOCK FALSE
