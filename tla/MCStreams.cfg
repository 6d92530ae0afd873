SPECIFICATION Spec
CONSTANTS
    a = a
    b = b
    c = c
    xlm = xlm
    Tokens = {xlm}
    Accounts = {a, b, c}
    Amounts = {1, 2}
    Donations = {1}
    MAX_STREAM_RATE = 1
    MAX_STREAM_DEPOSIT = 3
    MAX_USER_STREAMS = 1
    MaxStreams = 2
    MaxBalance = 1
    MaxLedger = 3
INVARIANTS
    TypeOK
    StreamBooksBalance
    ClaimedWithinAccrual
PROPERTIES
    ClosedIsFinal
    EarnedNeverShrinks
    BalanceFollowsObligations
SYMMETRY Symmetry
