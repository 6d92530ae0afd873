SPECIFICATION Spec
CONSTANTS
    a = a
    b = b
    c = c
    xlm = xlm
    Tokens = {xlm}
    Accounts = {a, b, c}
    InitialSets <- SmallSets
    Payloads <- FewPayloads
    Amounts = {1, 2}
    MAX_ADMIN_SIGNERS = 2
    STORAGE_LAYOUT_VERSION = 1
    CONTRACT_VERSION = 1
    EMERGENCY_WITHDRAWAL_DELAY = 1
    ActionTtl = 1
    MaxActions = 0
    MaxWithdrawals = 2
    MaxHeld = 2
    Donations = {1}
    MaxBalance = 2
    MaxLedger = 3
INVARIANT LockedIsBacked
