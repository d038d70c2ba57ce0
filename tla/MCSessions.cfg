SPECIFICATION Spec
CONSTANTS
    None = None
    Tasks = {t1}
    Addr = {a1}
    Indices = {i1}
    Offers = {{i1}}
    Workers = {w1}
    Objs = {o1}
    MaxSessionId = 1
    Requests = {r1, r2}
    Syncs = {s1}
    Capacity = 1
    MaxRestarts = 0
    MaxFaults = 0
    MaxPending = 1
    Ops = {"interact", "cancel", "expire", "sync", "late"}
SYMMETRY SymmetricPools
INVARIANTS
    InteractingHasHandler
    NoCallAfterFinish
CHECK_DEADLOCK FALSE
