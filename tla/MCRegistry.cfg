SPECIFICATION Spec
CONSTANTS
    Tasks = {t1, t2}
    Addr = {a1, a2}
    Indices = {i1}
    Offers = {{i1}}
    Workers = {w1, w2}
    Objs = {}
    MaxSessionId = 0
    Requests = {}
    Syncs = {s1}
    Capacity = 1
    MaxRestarts = 0
    MaxFaults = 1
    MaxPending = 0
    Ops = {"timeout", "stale", "sync"}
    None = None
SYMMETRY SymmetricPools
INVARIANTS
    RegistryConsistent
    AddressConflictResolved
CHECK_DEADLOCK FALSE
