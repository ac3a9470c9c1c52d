CONSTANTS
    k1 = k1
    n1 = n1
    n2 = n2
    v1 = v1
    v2 = v2
    w1 = w1
    w2 = w2
    None = None
    Accounts = {a1}
    Signers = {}
    EthKeys = {k1}
    Events <- BothLogs
    ExternalIDs = {}
    Threshold = 1
    MaxDeposits = 0
    MaxPending = 2
    EthConfirmations = 1
    Workers = {w1, w2}
    Partners <- OneContract
    MaxHead = 3
    Nodes = {n1, n2}
    Validators = {v1, v2}
    NodeOf <- TwoNodes
    KeyOf <- OwnKeys
    MaxCrashes = 1
SPECIFICATION EthSyncSafeSpec
INVARIANTS LockedIsLatest
