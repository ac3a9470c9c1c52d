CONSTANTS
    p1 = p1
    c1 = c1
    None = None
    Accounts = {alice, bob}
    Hashes = {p1}
    Classes = {c1}
    ProtoOf <- OneClass
    PermissionSets <- Gifting
    DataHashes = {}
    Quantities = {1}
    MaxEdition = 1
    MaxCopy = 3
    MaxBlock = 3
SPECIFICATION Spec
INVARIANTS  InventoryIsOwners 
PROPERTIES CopiesInherit  ExpiringGoes 
