SPECIFICATION Spec
CONSTANTS
    None = None
    Tasks = {t1}
    Addr = {a1, a2}
    Indices = {i1}
    Offers = {{i1}}
    Workers = {w1, w2}
    Objs = {o1, o2}
    MaxSessionId = 2
    Requests = {r1, r2}
    Syncs = {s1}
    Capacity = 1
    MaxRestarts = 0
    MaxFaults = 0
    MaxPending = 0
    Ops = {}
SYMMETRY SymmetricPools
INVARIANTS
    NoLostSession
CHECK_DEADLOCK FALSE
