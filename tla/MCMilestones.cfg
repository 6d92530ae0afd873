SPECIFICATION Spec
CONSTANTS
    a = a
    b = b
    c = c
    xlm = xlm
    Tokens = {xlm}
    Accounts = {a, b, c}
    Amounts = {2}
    Releases = {2}
    Plans <- TwoMilestones
    Batches = {}
    BatchIds = {}
    ArbitratorPool = {}
    Donations = {1}
    MIN_ESCROW_AMOUNT = 2
    MAX_ESCROW_AMOUNT = 2
    MAX_ESCROW_LEDGERS = 1
    MAX_MILESTONES = 2
    MAX_BATCH_SIZE = 3
    MAX_USER_ESCROWS = 2
    MaxEscrows = 2
    MaxBalance = 1
    MaxLedger = 3
PROPERTIES
    MilestonesAddUp
SYMMETRY Symmetry
