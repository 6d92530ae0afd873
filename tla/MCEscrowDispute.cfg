SPECIFICATION Spec
CONSTANTS
    a = a
    b = b
    c = c
    xlm = xlm
    Tokens = {xlm}
    Accounts = {a, b}
    Amounts = {1, 2}
    Releases = {2, 3}
    Plans = {}
    Batches = {}
    BatchIds <- AllIdSets
    ArbitratorPool = {b}
    Donations = {1}
    MIN_ESCROW_AMOUNT = 2
    MAX_ESCROW_AMOUNT = 2
    MAX_ESCROW_LEDGERS = 1
    MAX_MILESTONES = 2
    MAX_BATCH_SIZE = 3
    MAX_USER_ESCROWS = 2
    MaxEscrows = 1
    MaxBalance = 1
    MaxLedger = 3
PROPERTY DisputeFreezes
