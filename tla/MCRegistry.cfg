CONSTANTS
    alice = alice
    aliceLocked = aliceLocked
    bob = bob
    k1 = k1
    t1 = t1
    t2 = t2
    None = None
    Accounts = {alice, bob}
    Signers = {alice, bob}
    EthKeys = {}
    Events = {}
    Validators = {}
    ExternalIDs = {}
    Threshold = 1
    MaxDeposits = 0
    MaxPending = 2
    Hashes = {p1, p2}
    Assets = {x1}
    Categories = {c1}
    TagLists <- PairsOfTags
    MetaKeyNames = {m1}
    Costs = {0, None}
    StakeAmounts = {}
    LockedFragAccount <- EachOther
    StakeLockupPeriod = 1
    MaxBlock = 0
    MaxPatches = 1
SYMMETRY UsersAndProtos
SPECIFICATION Spec
INVARIANTS TypeOK ListedOnce IndexesAreDense LineageWellFounded PagesFindAll
PROPERTIES DetachedIsFrozen IsRegistry
