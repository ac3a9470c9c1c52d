CONSTANTS
    p1 = p1
    c1 = c1
    None = None
    Accounts = {alice, bob}
    Hashes = {p1}
    Classes = {c1}
    ProtoOf <- OneClass
    PermissionSets <- SaleOnly
    DataHashes = {d1, d2}
    Quantities = {1, 2}
    MaxEdition = 5
    MaxCopy = 1
    MaxBlock = 2
SPECIFICATION Spec
INVARIANTS TypeOK  UniqueDataOnce SupplyAtMostDoubled
PROPERTIES DetachedOnlySellsOut
