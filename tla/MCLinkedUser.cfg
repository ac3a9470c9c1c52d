CONSTANTS
    alice = alice
    aliceLocked = aliceLocked
    bob = bob
    k1 = k1
    t1 = t1
    t2 = t2
    None = None
    Accounts = {alice, aliceLocked, bob}
    Signers = {alice, bob}
    EthKeys = {k1}
    Events <- LockAndUnlock
    Validators = {v1}
    ExternalIDs = {}
    Threshold = 1
    MaxDeposits = 0
    MaxPending = 2
    Hashes = {p1, p2}
    Assets = {}
    Categories = {c1}
    TagLists <- NoTags
    MetaKeyNames = {}
    Costs = {1}
    StakeAmounts = {1, 2}
    LockedFragAccount <- NoLockedSigner
    StakeLockupPeriod = 1
    MaxBlock = 3
    MaxPatches = 0
SPECIFICATION StakingSpec
INVARIANTS LinkedUserCanStake
