CONSTANTS
    None = None
    Hashes = {p1}
    Targets = {t1, bad}
    ValidTargets = {t1}
    Nodes = {n1, n2}
    Genesis = {n1}
    Rotated = {n2}
    MaxBatch = 2
    MaxNonce = 2
SPECIFICATION Spec
INVARIANTS TypeOK NoncesHaveNoGap
PROPERTIES ListKeptUntilDone IsReleases
