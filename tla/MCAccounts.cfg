CONSTANTS
    k1 = k1
    k2 = k2
    None = None
    Accounts = {a1, a2}
    Signers = {a1, a2}
    EthKeys = {k1, k2}
    Events <- MCEvents
    Validators = {v1, v2}
    ExternalIDs = {x1}
    Threshold = 2
    MaxDeposits = 2
    MaxPending = 2
SPECIFICATION AccountsSpec
INVARIANTS AccountsTypeOK LinksInverse EffectNeedsQuorum LockedComesFromLogs DepositsMatchProxies
PROPERTIES LossIsQueued
