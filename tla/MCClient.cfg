SPECIFICATION ClientSpec
CONSTANTS
    t1 = t1
    TxIds = {t1}
    e1 = e1
    EntryIds = {e1}
    tab = tab
    sw1 = sw1
    Drains = {tab, sw1}
    SwDrains = {sw1}
    QUEUE_MAX_RETRIES = 2
    MaxKills = 1
    alice = alice
    bob = bob
    c1 = c1
    c2 = c2
    Wallets = {alice, bob}
    Connects = {c1, c2}
    MaxSwitches = 3
    MaxHides = 1
    s1 = s1
    s2 = s2
    Sends = {s1, s2}
    r1 = r1
    BatchRecipients = {r1}
    MaxMounts = 2
    x = x
    q = q
    f1 = f1
    Clients = {x}
    Readers = {q}
    Refreshes = {f1}
    ACCOUNT_CACHE_TTL = 1
    DEFAULT_TTL = 1
    MaxPaymentsMade = 2
    MaxFeedFaults = 1
    MaxEntries = 1
INVARIANTS
    ClientTypeOK
    NoPaymentLost
    SendsAreTracked
PROPERTIES
    QueuedIsSent
    HookFollowsWallet
    FormComesBack
    FeedIsCurrent
CHECK_DEADLOCK FALSE
