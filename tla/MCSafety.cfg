SPECIFICATION SafetySpec
CONSTANTS
    h1 = h1
    p1 = p1
    t2 = t2
    Hooks = {h1}
    Payments = {p1}
    WebhookTasks = {t1, t2}
    WEBHOOK_MAX_RETRIES = 2
    MAX_WEBHOOKS_PER_ACCOUNT = 1
    InsertReports = {"opaque"}
    MaxDeliveries = 2
    MaxWebhookRequests = 1
    MaxStreams = 1
    alice = alice
    bob = bob
    x = x
    q1 = q1
    f1 = f1
    f2 = f2
    TokenClients = {x}
    RefreshCalls = {f1, f2}
    MaxTokens = 3
    MaxLogouts = 1
    MaxTokenFaults = 1
    m1 = m1
    w1 = w1
    w2 = w2
    Mails = {m1}
    MailAddrs = {alice}
    Queuers = {q1}
    MailRuns = {w1, w2}
    QUEUE_BATCH_SIZE = 1
    RATE_LIMIT_PER_HOUR = 1
    MaxAttempts = 2
    HARD_BOUNCE_THRESHOLD = 1
    MaxMailFaults = 1
    r1 = r1
    r2 = r2
    Rotations = {r1, r2}
    MaxSecrets = 3
    t1 = t1
    c1 = c1
    c2 = c2
    Transfers = {t1}
    CallbackReqs = {c1, c2}
    LastStatus = 2
    MaxCallbackFaults = 1
    WalletKeys = {alice, bob}
    MaxLoads = 2
    Loaders = {"balance", "stats", "events", "spending", "sparkline", "volume", "recipients"}
    d1 = d1
    k1 = k1
    k2 = k2
    TxFunctions = {d1}
    TurretTicks = {k1, k2}
    TurretCalls = {q1}
    Providers = {1, 2}
    CACHE_TTL = 1
    PROVIDER_TIMEOUT = 1
    IntervalMinutes = 1
    CooldownMinutes = 1
    ReleaseAfter = 1
    RecheckAfter = 1
    MaxHistory = 1
    MaxTurretTime = 3
    MaxLogs = 2
    MaxTurretFaults = 1
    wa = wa
    wb = wb
    Workers = {wa, wb}
    MAX_RETRIES = 2
    LeaseTicks = 1
    RetryTicks = 1
    Outcomes = {"success", "retryable", "permanent"}
    LockModes = {"down"}
    MayOverrun = FALSE
    MaxRuns = 1
    MaxManual = 1
    MaxFaults = 1
    xlm = xlm
    Tokens = {xlm}
    Grantees = {alice, bob}
    GrantAmounts = {0, 3}
    GrantLedgers = {2, 4}
    Leaves <- SomeLeaves
    QuotedPrices = {0, 1, 3}
    PRICE_SCALE = 2
    MAX_ORACLE_AGE = 1
    MAX_VESTING_AMOUNT = 3
    MAX_VESTING_DURATION_LEDGERS = 3
    MaxGrants = 2
    Donations = {1}
    MaxBalance = 1
    MaxLedger = 5
    Tippers = {alice, bob}
    TipAmounts = {0, 1, 2}
    MAX_BATCH_SIZE = 2
    MAX_USER_RECEIPTS = 2
    MaxTips = 3
INVARIANTS
    SafetyTypeOK
    DeliveryStatusIsTrue
    SessionsAreSafe
    SecretsAreUsable
    RecordFollowsAnchor
    RunsAreDue
    GrantsAddUp
    RecordsAddUp
PROPERTIES
    MailIsSentAsAsked
    DashboardKeepsAccount
    ClaimsAreOwned
CHECK_DEADLOCK FALSE
