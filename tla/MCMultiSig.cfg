SPECIFICATION FairSpec
CONSTANTS
    a = a
    b = b
    c = c
    xlm = xlm
    Tokens = {xlm}
    Accounts = {a, b}
    Amounts = {1, 2}
    Thresholds = {0, 1, 2}
    Expirations = {2, 3}
    Donations = {1}
    MIN_MULTISIG_AMOUNT = 2
    MAX_MULTISIG_AMOUNT = 2
    MAX_MULTISIG_TTL = 2
    MAX_MULTISIG_SIGNERS = 2
    MaxProposals = 2
    MaxBalance = 1
    MaxLedger = 4
INVARIANTS
    PaidByQuorum
PROPERTIES
    DepositsLeaveOnce
    NoFundsLockedForever
