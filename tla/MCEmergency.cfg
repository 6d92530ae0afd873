SPECIFICATION EmergencySpec
CONSTANTS
    a = a
    b = b
    c = c
    xlm = xlm
    Tokens = {xlm}
    Accounts = {a, b, c}
    InitialSets <- SmallSets
    Payloads <- AllPayloads
    Amounts = {1}
    MAX_ADMIN_SIGNERS = 2
    STORAGE_LAYOUT_VERSION = 1
    CONTRACT_VERSION = 1
    EMERGENCY_WITHDRAWAL_DELAY = 1
    ActionTtl = 1
    MaxActions = 2
    MaxWithdrawals = 1
    MaxHeld = 2
    Donations = {1}
    MaxBalance = 1
    MaxLedger = 3
INVARIANTS
    DecisionsHaveAQuorum
    LockedIsBacked
PROPERTIES
    DecisionsStand
