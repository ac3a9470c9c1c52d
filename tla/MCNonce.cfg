CONSTANTS
    None = None
    Hashes = {p1, p2}
    Targets = {t1}
    ValidTargets = {t1}
    Nodes = {n1, n2}
    Genesis = {n1}
    Rotated = {}
    MaxBatch = 2
    MaxNonce = 1
SPECIFICATION Spec
INVARIANTS NonceIdentifiesMessage
